---- MODULE Spec2Model ----
(***************************************************************************)
(* A state-machine model of the document pipeline of ux-for-llm:           *)
(*   - App.handleFilesSelected / App.processDocuments / updateProcessing-  *)
(*     Status (the batch loop and the status list),                        *)
(*   - DocumentExtractor.extractText and its three format adapters,        *)
(*   - TokenizationService.tokenizeText / updateConfig / getConfig /       *)
(*     testConnection.                                                     *)
(* Every async function is cut at its awaits: one action is the code that  *)
(* runs synchronously between two suspension points (JavaScript runs such  *)
(* a segment to completion before any other callback).                     *)
(*                                                                         *)
(* Representation:                                                         *)
(*   - strings whose characters the code inspects (the service URL) are    *)
(*     sequences of one-character strings; other strings are TLA+ strings; *)
(*   - an optional value (T | undefined) is a sequence of length 0 or 1;   *)
(*   - a progress value is kept in hundredths of a percent point, so that  *)
(*     96 + p * 0.03 is the integer 9600 + 3 * p.                          *)
(***************************************************************************)
EXTENDS Integers, Sequences, FiniteSets, TLC

VARIABLES
    config,              \* TokenizationService.config
    uploadedFiles,       \* App state: the last selection
    processingStatuses,  \* App state: the status list (upsert by id)
    extractedDocuments,  \* App state: the documents of the last finished run
    isProcessing,        \* App state
    runs,                \* one record per processDocuments call, in call order
    log,                 \* every status passed to onProgress, in emission order
    client,              \* the callers of the service's configuration operations:
                         \*   startup  the configuration the constructor built
                         \*   written  per field, the value last supplied to updateConfig
                         \*   got      the object last returned by getConfig
                         \*   tests    one record per testConnection call
                         \*   panel    the state of the TokenizationConfig panel
    now,                 \* the value Date.now() returns, in milliseconds
    preprocessor,        \* a caller of TextPreprocessor: the arguments and the
                         \* values returned by preprocessText / getPreprocessingStats
    widget               \* FileUpload state:
                         \*   uploadedFiles  the component's own list
                         \*   last           the outcome of the last handleFiles call

vars == <<config, uploadedFiles, processingStatuses, extractedDocuments,
          isProcessing, runs, log, client, now, widget, preprocessor>>

appVars == <<uploadedFiles, processingStatuses, extractedDocuments, isProcessing>>

-----------------------------------------------------------------------------
(* Bounds of the model *)

\* Largest number of files in the selection of SpecBatch.
MaxFiles == 3
\* Largest number of processDocuments calls in one behaviour (SpecReuse).
MaxRuns == 2
\* Largest number of files in one selection of SpecReuse.
MaxReuseFiles == 2
\* Largest page count of a PDF.
MaxPages == 2
\* Largest number of tokens in a service response.
MaxTokens == 1
\* Largest number of testConnection calls in one behaviour (SpecConfig).
MaxTests == 1
\* Largest value of the millisecond clock.
MaxTime == 1
\* Largest number of pieces of a text handed to the preprocessor (SpecText).
MaxChunks == 5
\* Largest number of processDocuments calls in flight when the user removes a
\* file or clears the list (SpecUpload).
MaxOverlap == 1
\* Largest number of onFilesSelected calls in one behaviour (SpecUpload).
MaxSelections == 2

-----------------------------------------------------------------------------
(* Optional values and small helpers *)

None == <<>>
Some(x) == <<x>>
IsSome(o) == Len(o) = 1
Get(o) == o[1]

Last(s) == s[Len(s)]

-----------------------------------------------------------------------------
(* Media types (src/unnamed/part_000, the switch of extractText) *)

PDF == "application/pdf"
DOCX == "application/vnd.openxmlformats-officedocument.wordprocessingml.document"
MSWORD == "application/msword"
TXT == "text/plain"

-----------------------------------------------------------------------------
(* Strings the code inspects character by character *)

Whitespace == {" ", "\t", "\n"}

RECURSIVE TrimStart(_)
\* String.prototype.trimStart
TrimStart(s) ==
    IF s # <<>> /\ Head(s) \in Whitespace THEN TrimStart(Tail(s)) ELSE s

RECURSIVE TrimEnd(_)
\* String.prototype.trimEnd
TrimEnd(s) ==
    IF s # <<>> /\ Last(s) \in Whitespace
    THEN TrimEnd(SubSeq(s, 1, Len(s) - 1))
    ELSE s

\* String.prototype.trim
Trim(s) == TrimEnd(TrimStart(s))

-----------------------------------------------------------------------------
(* Document text: a sequence of one-character strings. "A" stands for the  *)
(* letters of the class [A-ZÀ-Ÿ], "x" for any other letter.                *)

Upper == {"A"}
\* the class [A-ZÀ-Ÿ\s]
UpperOrSpace == Upper \cup Whitespace

RECURSIVE SplitWhitespace(_, _)
\* text.split(/\s+/): the pieces between the whitespace runs (cur: the piece
\* being read)
SplitWhitespace(s, cur) ==
    IF s = <<>> THEN <<cur>>
    ELSE IF Head(s) \in Whitespace
         THEN <<cur>> \o SplitWhitespace(TrimStart(s), <<>>)
         ELSE SplitWhitespace(Tail(s), Append(cur, Head(s)))

\* text.split(/\s+/).filter(word => word.length > 0).length
WordCount(s) == Len(SelectSeq(SplitWhitespace(s, <<>>), LAMBDA word : Len(word) > 0))

\* text.split('\n').length
LineCount(s) == Len(SelectSeq(s, LAMBDA c : c = "\n")) + 1

\* a / b on JavaScript numbers, a and b non-negative integers: a fraction,
\* NaN (0 / 0) or Infinity (a / 0)
Divide(a, b) ==
    [kind |-> IF b # 0 THEN "finite" ELSE IF a = 0 THEN "NaN" ELSE "Infinity",
     num |-> a, den |-> b]

\* the last position of the run of characters of `class` that starts at i
\* (i - 1: there is none)
RunEnd(s, i, class) ==
    CHOOSE e \in (i - 1)..Len(s) :
        /\ \A j \in i..e : s[j] \in class
        /\ e < Len(s) => s[e + 1] \notin class

RECURSIVE ReplaceWhitespace(_)
\* cleaned.replace(/\s+/g, ' ')
ReplaceWhitespace(s) ==
    IF s = <<>> THEN <<>>
    ELSE IF Head(s) \in Whitespace THEN <<" ">> \o ReplaceWhitespace(TrimStart(s))
         ELSE <<Head(s)>> \o ReplaceWhitespace(Tail(s))

\* /([A-ZÀ-Ÿ][A-ZÀ-Ÿ\s]{2,})\s*:/ matches at i: the position of the colon that
\* ends the match (0: no match). The greedy {2,} takes the whole run, \s* is
\* left empty, and the colon must follow the run.
FieldMatch(s, i) ==
    LET e == RunEnd(s, i + 1, UpperOrSpace)
    IN IF s[i] \in Upper /\ e - i >= 2 /\ e < Len(s) /\ s[e + 1] = ":"
       THEN e + 1 ELSE 0

RECURSIVE AddFieldMarkers(_, _)
\* cleaned.replace(/([A-ZÀ-Ÿ][A-ZÀ-Ÿ\s]{2,})\s*:/g, '\n$1:') from position i on
AddFieldMarkers(s, i) ==
    IF i > Len(s) THEN <<>>
    ELSE LET end == FieldMatch(s, i)
         IN IF end > 0
            THEN <<"\n">> \o SubSeq(s, i, end) \o AddFieldMarkers(s, end + 1)
            ELSE <<s[i]>> \o AddFieldMarkers(s, i + 1)

\* /([A-ZÀ-Ÿ]{3,}[A-ZÀ-Ÿ\s]+[A-ZÀ-Ÿ]{3,})/ matches at i: the last position of
\* the match (0: no match). Backtracking leaves the last group at the rightmost
\* three letters of the run that leave room for the first two groups.
HeaderMatch(s, i) ==
    LET e == RunEnd(s, i, UpperOrSpace)
        starts == {p \in (i + 4)..(e - 2) : \A j \in p..(p + 2) : s[j] \in Upper}
    IN IF i + 2 <= Len(s) /\ (\A j \in i..(i + 2) : s[j] \in Upper) /\ starts # {}
       THEN RunEnd(s, CHOOSE p \in starts : \A q \in starts : q <= p, Upper)
       ELSE 0

RECURSIVE AddHeaderMarkers(_, _)
\* cleaned.replace(/([A-ZÀ-Ÿ]{3,}[A-ZÀ-Ÿ\s]+[A-ZÀ-Ÿ]{3,})/g, '\n\n$1') from i on
AddHeaderMarkers(s, i) ==
    IF i > Len(s) THEN <<>>
    ELSE LET end == HeaderMatch(s, i)
         IN IF end > 0
            THEN <<"\n", "\n">> \o SubSeq(s, i, end) \o AddHeaderMarkers(s, end + 1)
            ELSE <<s[i]>> \o AddHeaderMarkers(s, i + 1)

RECURSIVE CollapseNewlines(_, _)
\* cleaned.replace(/\n{3,}/g, '\n\n') from position i on
CollapseNewlines(s, i) ==
    IF i > Len(s) THEN <<>>
    ELSE LET e == RunEnd(s, i, {"\n"})
         IN IF e - i >= 2 THEN <<"\n", "\n">> \o CollapseNewlines(s, e + 1)
            ELSE <<s[i]>> \o CollapseNewlines(s, i + 1)

\* PreprocessingOptions with the defaults of the destructuring
DefaultOptions ==
    [preserveOriginalStructure |-> FALSE, addFieldMarkers |-> TRUE,
     addHeaderMarkers |-> TRUE, normalizeWhitespace |-> TRUE]

\* preprocessText refusing a text without a letter
preprocessText_strict(rawText, options) ==
    IF \A i \in 1..Len(rawText) : rawText[i] \in Whitespace
    THEN <<"TypeError: Cannot read properties of null">>
    ELSE Trim(CollapseNewlines(AddHeaderMarkers(AddFieldMarkers(rawText, 1), 1), 1))

\* preprocessText collapsing the newlines before the markers are added
preprocessText_collapseFirst(rawText, options) ==
    LET normalized == IF options.normalizeWhitespace THEN ReplaceWhitespace(rawText)
                      ELSE rawText
        collapsed == CollapseNewlines(normalized, 1)
        fields == IF options.addFieldMarkers THEN AddFieldMarkers(collapsed, 1)
                  ELSE collapsed
        headers == IF options.addHeaderMarkers THEN AddHeaderMarkers(fields, 1)
                   ELSE fields
    IN Trim(headers)

\* TextPreprocessor.preprocessText(rawText, options): `cleaned` after each of
\* its assignments, each computed from the value of the one before
preprocessText(rawText, options) ==
    LET normalized == IF options.normalizeWhitespace THEN ReplaceWhitespace(rawText)
                      ELSE rawText
        fields == {IF options.addFieldMarkers THEN AddFieldMarkers(c, 1) ELSE c :
                       c \in {normalized}}
        headers == {IF options.addHeaderMarkers THEN AddHeaderMarkers(c, 1) ELSE c :
                        c \in fields}
        collapsed == {CollapseNewlines(c, 1) : c \in headers}
    IN CHOOSE cleaned \in {Trim(c) : c \in collapsed} : TRUE

\* TextPreprocessor.getPreprocessingStats(originalText, processedText)
getPreprocessingStats(originalText, processedText) ==
    [originalWordCount |-> WordCount(originalText),
     processedWordCount |-> WordCount(processedText),
     originalLineCount |-> LineCount(originalText),
     processedLineCount |-> LineCount(processedText),
     compressionRatio |-> Divide(Len(processedText), Len(originalText)),
     structureImprovement |-> Divide(LineCount(processedText), LineCount(originalText))]

\* A caller of the TextPreprocessor before its first call
NoCall ==
    [op |-> "none", rawText |-> <<>>, options |-> DefaultOptions,
     returned |-> <<>>, processedText |-> <<>>,
     stats |-> getPreprocessingStats(<<>>, <<>>)]

-----------------------------------------------------------------------------
(* Errors: [name, message]; a message is the sequence of the parts a       *)
(* template literal joins.                                                 *)

Err(name, parts) == [name |-> name, message |-> parts]

\* The texts on which String.prototype.includes is evaluated in the catch
\* block of tokenizeText, tabulated for the literal parts of the model.
HasFailedToFetch(part) ==
    part \in {"Failed to fetch", "upstream said: Failed to fetch"}
HasNetworkError(part) ==
    part \in {"NetworkError when attempting to fetch resource."}
HasCORS(part) ==
    part \in {"blocked by CORS policy"}

\* error.message.includes(needle), needle one of the three above
Includes(message, needle) ==
    \E i \in 1..Len(message) :
        CASE needle = "Failed to fetch" -> HasFailedToFetch(message[i])
          [] needle = "NetworkError" -> HasNetworkError(message[i])
          [] needle = "CORS" -> HasCORS(message[i])
          [] OTHER -> FALSE

-----------------------------------------------------------------------------
(* TokenizationService: configuration *)

\* URLs are abbreviated: the default service URL, the placeholder of the
\* constructor, a URL set by the user.
DefaultUrl == <<"d">>
PlaceholderUrl == <<"p">>

\* constructor(): envUrl and envKey are the two optional environment values
TokenizationServiceNew(envUrl, envKey) ==
    LET url0 == IF IsSome(envUrl) /\ Get(envUrl) # <<>> THEN Get(envUrl) ELSE DefaultUrl
        url  == IF url0 = <<>> \/ url0 = PlaceholderUrl THEN DefaultUrl ELSE url0
    IN [modelName |-> "gpt-oss-120b", azureFunctionUrl |-> url, apiKey |-> envKey]

\* MergeConfig replacing the whole configuration: a field not supplied is lost
MergeConfig_replace(cfg, partial) ==
    [modelName        |-> IF IsSome(partial.modelName) THEN Get(partial.modelName) ELSE "",
     azureFunctionUrl |-> IF IsSome(partial.azureFunctionUrl)
                          THEN Get(partial.azureFunctionUrl)
                          ELSE <<>>,
     apiKey           |-> IF IsSome(partial.apiKey) THEN Get(partial.apiKey) ELSE None]

\* { ...this.config, ...partial }: partial gives each field as an optional
MergeConfig(cfg, partial) ==
    [modelName        |-> IF IsSome(partial.modelName) THEN Get(partial.modelName)
                          ELSE cfg.modelName,
     azureFunctionUrl |-> IF IsSome(partial.azureFunctionUrl)
                          THEN Get(partial.azureFunctionUrl)
                          ELSE cfg.azureFunctionUrl,
     apiKey           |-> IF IsSome(partial.apiKey) THEN Get(partial.apiKey)
                          ELSE cfg.apiKey]

\* UrlNotConfigured without the trim
UrlNotConfigured_noTrim(url) == url = <<>>

\* The guard of tokenizeText:
\*   !this.config.azureFunctionUrl || this.config.azureFunctionUrl.trim() === ''
UrlNotConfigured(url) == url = <<>> \/ Trim(url) = <<>>

-----------------------------------------------------------------------------
(* ProcessingStatus values and the App's status list *)

Extracting == "extracting"
Completed == "completed"
Error == "error"
StatusValues == {"uploading", "extracting", "completed", "error"}

\* progress in hundredths of a percent point
Pct(n) == 100 * n

Status(id, status, progress, message, error) ==
    [id |-> id, status |-> status, progress |-> progress,
     message |-> message, error |-> error]

\* An emission: the status and the function whose code passed it to onProgress
Ev(by, st) == [by |-> by, st |-> st]

\* UpdateProcessingStatus moving an updated entry to the end of the list
UpdateProcessingStatus_moveLast(prev, status) ==
    Append(SelectSeq(prev, LAMBDA s : s.id # status.id), status)

\* App.updateProcessingStatus: replace the entry with the same id, or append
UpdateProcessingStatus(prev, status) ==
    IF \E i \in 1..Len(prev) : prev[i].id = status.id
    THEN [i \in 1..Len(prev) |-> IF prev[i].id = status.id THEN status ELSE prev[i]]
    ELSE Append(prev, status)

RECURSIVE ApplyStatuses(_, _)
\* the successive calls of updateProcessingStatus for the emissions `out`
ApplyStatuses(prev, out) ==
    IF out = <<>> THEN prev
    ELSE ApplyStatuses(UpdateProcessingStatus(prev, Head(out).st), Tail(out))

-----------------------------------------------------------------------------
(* JavaScript values of a parsed JSON response: uniform records            *)
(*   t: "undefined" | "null" | "string" | "array"; s: the string; a: the   *)
(*   array's elements                                                      *)

JsUndefined == [t |-> "undefined", s |-> "", a |-> <<>>]
JsNull == [t |-> "null", s |-> "", a |-> <<>>]
JsString(str) == [t |-> "string", s |-> str, a |-> <<>>]
JsArray(elems) == [t |-> "array", s |-> "", a |-> elems]

\* ToBoolean
Truthy(v) == v.t = "array" \/ (v.t = "string" /\ v.s # "")
\* Array.isArray
IsArray(v) == v.t = "array"

-----------------------------------------------------------------------------
(* One invocation of DocumentExtractor.extractText                         *)
(*                                                                         *)
(* pc names the await at which the invocation is suspended:                *)
(*   "pdf_arrayBuffer" "pdf_getDocument" "pdf_getPage" "pdf_getTextContent"*)
(*   "docx_import" "docx_arrayBuffer" "docx_extractRawText" "txt_text"     *)
(*   "adapter_settled"  the adapter's promise has settled, extractText has *)
(*                      not resumed yet                                    *)
(*   "tok_fetch" "tok_text" "tok_json"   inside tokenizeText               *)
(*   "tok_settled"      tokenizeText's promise has settled, extractText    *)
(*                      has not resumed yet                                *)
(*   "resolved" "rejected"  extractText's promise has settled              *)
(* "idle" is a file of the batch whose extractText was not called.         *)
(***************************************************************************)

NoErr == Err("", <<>>)
NoData == [tokens |-> <<>>, tokenIds |-> JsUndefined, tokenCount |-> 0, modelName |-> ""]
NoStats == getPreprocessingStats(<<>>, <<>>)
NoDoc ==
    [id |-> <<"", 0>>, fileName |-> "", fileType |-> "", extractedText |-> <<>>,
     preprocessedText |-> <<>>, tokenizedData |-> None, wordCount |-> 0,
     metadata |-> [preprocessingStats |-> NoStats]]

NewInv(file) ==
    [pc |-> "idle", file |-> file,
     startTime |-> 0,         \* const startTime = Date.now()
     pages |-> <<>>,          \* the arguments of pdf.getPage, in call order
     fullText |-> <<>>,       \* extractFromPDF: let fullText
     extractedText |-> <<>>,  \* the string the adapter returned
     wordCount |-> 0, preprocessedText |-> <<>>, preprocessingStats |-> NoStats,
     adapterCalls |-> <<>>,   \* the format adapters called, in order
     reads |-> 0,             \* calls of file.arrayBuffer() / file.text()
     normCalls |-> 0,         \* calls of TextPreprocessor.preprocessText
     tokCalls |-> 0,          \* calls of TokenizationService.tokenizeText
     tokText |-> None,        \* the text tokenizeText was called with
     urlAtCall |-> <<>>,      \* config.azureFunctionUrl when tokenizeText was called
     requests |-> <<>>,       \* the fetch() calls issued, in order
     timer |-> "none",        \* "none" | "armed" | "cleared" | "fired"
     abortedAt |-> "",        \* the pc at which the timer fired ("": it has not)
     errorText |-> None,      \* the body read by response.text()
     fallbackModel |-> None,  \* config.modelName when read for the result
     result |-> None,         \* the value response.json() resolved with
     numPages |-> 0, pageNum |-> 0,
     adapterOk |-> FALSE, adapterErr |-> NoErr,
     response |-> [ok |-> FALSE, status |-> "", statusText |-> ""],
     tokOk |-> FALSE, tokData |-> NoData, tokErr |-> NoErr,
     doc |-> NoDoc, error |-> NoErr]

\* What a segment does: the invocation's new state and the statuses it emits
Seg(inv, out) == [inv |-> inv, out |-> out]

Settled(inv) == inv.pc \in {"resolved", "rejected"}

\* The adapter's promise resolves / rejects (its catch block rethrows a new
\* Error with a fixed message)
AdapterReturn(inv, text) ==
    [inv EXCEPT !.pc = "adapter_settled", !.adapterOk = TRUE, !.extractedText = text]
AdapterThrow(inv, msg) ==
    [inv EXCEPT !.pc = "adapter_settled", !.adapterOk = FALSE,
                !.adapterErr = Err("Error", <<msg>>)]

PdfCorrupt == "Failed to extract text from PDF. Please ensure the file is not corrupted."
DocxCorrupt == "Failed to extract text from Word document. Please ensure the file is not corrupted."
TextUnreadable == "Failed to read text file."

\* PageProgress with the page share scaled to 100 instead of 80
PageProgress_unscaled(pageNum, totalPages) ==
    Pct(((200 * pageNum + totalPages) \div (2 * totalPages)) + 10)

\* Math.round((pageNum / totalPages) * 80) + 10, in hundredths
PageProgress(pageNum, totalPages) ==
    Pct(((160 * pageNum + totalPages) \div (2 * totalPages)) + 10)

\* extractFromPDF up to its first await
extractFromPDF_call(inv) ==
    Seg([inv EXCEPT !.adapterCalls = Append(@, "extractFromPDF"),
                    !.reads = @ + 1, !.pc = "pdf_arrayBuffer"],
        <<Ev("extractFromPDF",
             Status(inv.file.name, Extracting, Pct(10), "Loading PDF document...", None))>>)

\* extractFromPDF_loop asking pdf.getPage for zero-based page numbers
extractFromPDF_loop_zeroBased(inv, pageNum) ==
    IF pageNum <= inv.numPages
    THEN Seg([inv EXCEPT !.pageNum = pageNum, !.pages = Append(@, pageNum - 1),
                         !.pc = "pdf_getPage"],
             <<Ev("extractFromPDF",
                  Status(inv.file.name, Extracting, PageProgress(pageNum, inv.numPages),
                         "Extracting text from page...", None))>>)
    ELSE Seg(AdapterReturn([inv EXCEPT !.pageNum = pageNum], Trim(inv.fullText)), <<>>)

\* extractFromPDF_loop never leaving its last page
extractFromPDF_loop_redo(inv, pageNum) ==
    IF pageNum <= inv.numPages
    THEN Seg([inv EXCEPT !.pageNum = pageNum, !.pages = Append(@, pageNum),
                         !.pc = "pdf_getPage"],
             <<Ev("extractFromPDF",
                  Status(inv.file.name, Extracting, PageProgress(pageNum, inv.numPages),
                         "Extracting text from page...", None))>>)
    ELSE Seg([inv EXCEPT !.pageNum = inv.numPages, !.fullText = <<>>,
                         !.pc = "pdf_getPage"], <<>>)

\* the head of the page loop: emit and await getPage, or return fullText.trim()
extractFromPDF_loop(inv, pageNum) ==
    IF pageNum <= inv.numPages
    THEN Seg([inv EXCEPT !.pageNum = pageNum, !.pages = Append(@, pageNum),
                         !.pc = "pdf_getPage"],
             <<Ev("extractFromPDF",
                  Status(inv.file.name, Extracting, PageProgress(pageNum, inv.numPages),
                         "Extracting text from page...", None))>>)
    ELSE Seg(AdapterReturn([inv EXCEPT !.pageNum = pageNum], Trim(inv.fullText)), <<>>)

\* extractFromDocx up to its first await (the dynamic import)
extractFromDocx_call(inv) ==
    Seg([inv EXCEPT !.adapterCalls = Append(@, "extractFromDocx"), !.pc = "docx_import"],
        <<Ev("extractFromDocx",
             Status(inv.file.name, Extracting, Pct(20), "Reading Word document...", None))>>)

\* extractFromText_call reporting 97 for the read of the file
extractFromText_call_late(inv) ==
    Seg([inv EXCEPT !.adapterCalls = Append(@, "extractFromText"),
                    !.reads = @ + 1, !.pc = "txt_text"],
        <<Ev("extractFromText",
             Status(inv.file.name, Extracting, Pct(97), "Reading text file...", None))>>)

\* extractFromText up to its first await
extractFromText_call(inv) ==
    Seg([inv EXCEPT !.adapterCalls = Append(@, "extractFromText"),
                    !.reads = @ + 1, !.pc = "txt_text"],
        <<Ev("extractFromText",
             Status(inv.file.name, Extracting, Pct(50), "Reading text file...", None))>>)

\* extractText_catch rethrowing without reporting the error
extractText_catch_silent(inv, out, err) ==
    Seg([inv EXCEPT !.pc = "rejected", !.error = err], out)

\* the catch block of extractText
extractText_catch(inv, out, err) ==
    Seg([inv EXCEPT !.pc = "rejected", !.error = err],
        Append(out, Ev("extractText",
                       Status(inv.file.name, Error, 0, "Extraction failed",
                              Some(err.message)))))

\* extractText_call with the legacy Word type handed to the DOCX adapter
extractText_call_docAsDocx(inv0) ==
    LET start == <<Ev("extractText",
                      Status(inv0.file.name, Extracting, Pct(5),
                             "Starting text extraction...", None))>>
        t == inv0.file.type
        inv == [inv0 EXCEPT !.startTime = now]
        sub == CASE t = PDF -> extractFromPDF_call(inv)
                 [] t \in {DOCX, MSWORD} -> extractFromDocx_call(inv)
                 [] t = TXT -> extractFromText_call(inv)
                 [] OTHER -> Seg(inv, <<>>)
    IN IF t \in {PDF, DOCX, MSWORD, TXT} THEN Seg(sub.inv, start \o sub.out)
       ELSE extractText_catch(inv, start, Err("Error", <<"Unsupported file type: ", t>>))

\* extractText up to its first await; startTime is the clock at the call
extractText_call(inv0) ==
    LET start == <<Ev("extractText",
                      Status(inv0.file.name, Extracting, Pct(5),
                             "Starting text extraction...", None))>>
        t == inv0.file.type
        inv == [inv0 EXCEPT !.startTime = now]
        sub == CASE t = PDF  -> extractFromPDF_call(inv)
                 [] t = DOCX -> extractFromDocx_call(inv)
                 [] t = TXT  -> extractFromText_call(inv)
                 [] OTHER    -> Seg(inv, <<>>)
    IN CASE t \in {PDF, DOCX, TXT} -> Seg(sub.inv, start \o sub.out)
         [] t = MSWORD ->
              extractText_catch(inv, start,
                  Err("Error", <<"Legacy .doc files are not supported. Please convert to .docx format.">>))
         [] OTHER ->
              extractText_catch(inv, start, Err("Error", <<"Unsupported file type: ", t>>))

-----------------------------------------------------------------------------
(* TokenizationService.tokenizeText, called by extractText *)

NotConfiguredMsg == "Azure Function URL not configured. Please configure the tokenizer in the header \"Tokenizer Config\" section."
TimedOutMsg == "Request timed out. The Azure Function may be slow to respond or unavailable."
CannotConnectMsg == "Cannot connect to Azure Function. Please check: ..."
CorsMsg == "CORS error: The Azure Function needs to allow requests from this domain."
InvalidResponseMsg == "Invalid response format: missing tokens array"

\* TokProgress scaled by 0.04
TokProgress_wide(inv, progress, message) ==
    Ev("tokenizeText",
       Status(inv.file.name, Extracting, Pct(96) + 4 * progress,
              "Tokenization: " \o message, None))

\* The callback extractText passes to tokenizeText: 96 + progress * 0.03
TokProgress(inv, progress, message) ==
    Ev("tokenizeText",
       Status(inv.file.name, Extracting, Pct(96) + 3 * progress,
              "Tokenization: " \o message, None))

\* if (this.config.apiKey) headers['Authorization'] = `Bearer ${apiKey}`
AuthorizationHeader(cfg) ==
    IF IsSome(cfg.apiKey) /\ Get(cfg.apiKey) # "" THEN cfg.apiKey ELSE None

\* tokenizeText up to its first await (or its synchronous throw)
tokenizeText_call(inv, text, cfg) ==
    IF UrlNotConfigured(cfg.azureFunctionUrl)
    THEN Seg([inv EXCEPT !.tokCalls = @ + 1, !.tokText = Some(text),
                         !.urlAtCall = cfg.azureFunctionUrl,
                         !.pc = "tok_settled", !.tokOk = FALSE,
                         !.tokErr = Err("Error", <<NotConfiguredMsg>>)],
             <<>>)
    ELSE Seg([inv EXCEPT !.tokCalls = @ + 1, !.tokText = Some(text),
                         !.urlAtCall = cfg.azureFunctionUrl,
                         !.pc = "tok_fetch", !.timer = "armed",
                         !.requests = Append(@, [url |-> cfg.azureFunctionUrl,
                                                 text |-> text,
                                                 authorization |-> AuthorizationHeader(cfg),
                                                 model_name |-> cfg.modelName])],
             <<TokProgress(inv, 10, "Connecting to tokenization service..."),
               TokProgress(inv, 30, "Sending text for tokenization...")>>)

\* tokenizeText_catch without the AbortError branch
tokenizeText_catch_noAbort(error) ==
    IF Includes(error.message, "Failed to fetch")
       \/ Includes(error.message, "NetworkError")
    THEN Err("Error", <<CannotConnectMsg>>)
    ELSE IF Includes(error.message, "CORS") THEN Err("Error", <<CorsMsg>>)
    ELSE error

\* the catch block of tokenizeText: the error finally thrown
tokenizeText_catch(error) ==
    IF error.name = "AbortError" THEN Err("Error", <<TimedOutMsg>>)
    ELSE IF Includes(error.message, "Failed to fetch")
            \/ Includes(error.message, "NetworkError")
         THEN Err("Error", <<CannotConnectMsg>>)
    ELSE IF Includes(error.message, "CORS") THEN Err("Error", <<CorsMsg>>)
    ELSE error

\* TokReject sending the request once more after the first failure
TokReject_retry(inv, error) ==
    IF Len(inv.requests) < 2
    THEN [inv EXCEPT !.pc = "tok_fetch", !.requests = Append(@, Last(@))]
    ELSE [inv EXCEPT !.pc = "tok_settled", !.tokOk = FALSE,
                     !.tokErr = tokenizeText_catch(error)]

\* tokenizeText rejects with what its catch block throws
TokReject(inv, error) ==
    [inv EXCEPT !.pc = "tok_settled", !.tokOk = FALSE, !.tokErr = tokenizeText_catch(error)]

\* fetch settles: o = [kind |-> "response", ok, status, statusText]
\*             or [kind |-> "reject", err]
tokenizeText_afterFetch(inv, o) ==
    IF o.kind = "response"
    THEN Seg([inv EXCEPT !.timer = "cleared",
                         !.response = [ok |-> o.ok, status |-> o.status,
                                       statusText |-> o.statusText],
                         !.pc = IF o.ok THEN "tok_json" ELSE "tok_text"],
             <<TokProgress(inv, 70, "Processing tokenization response...")>>)
    ELSE Seg(TokReject(inv, o.err), <<>>)

\* response.text() settles: o = [kind |-> "body", body] or [kind |-> "reject", err]
tokenizeText_afterText(inv, o) ==
    IF o.kind = "body"
    THEN Seg(TokReject([inv EXCEPT !.errorText = Some(o.body)],
                       Err("Error", <<"Tokenization failed: ", inv.response.status, " ",
                                      inv.response.statusText, ". ", o.body>>)),
             <<>>)
    ELSE Seg(TokReject(inv, o.err), <<>>)

\* TokenizedData counting the ids instead of the tokens
TokenizedData_countIds(result, cfg) ==
    [tokens |-> result.tokens.a,
     tokenIds |-> IF Truthy(result.token_ids) THEN result.token_ids ELSE JsArray(<<>>),
     tokenCount |-> Len(result.token_ids.a),
     modelName |-> IF Truthy(result.model) THEN result.model.s ELSE cfg.modelName]

\* const tokenizedData = { tokens: result.tokens, tokenIds: result.token_ids || [],
\*   tokenCount: result.tokens.length, modelName: result.model || config.modelName }
TokenizedData(result, cfg) ==
    [tokens |-> result.tokens.a,
     tokenIds |-> IF Truthy(result.token_ids) THEN result.token_ids ELSE JsArray(<<>>),
     tokenCount |-> Len(result.tokens.a),
     modelName |-> IF Truthy(result.model) THEN result.model.s ELSE cfg.modelName]

\* tokenizeText_afterJson reporting completion before it validates the response
tokenizeText_afterJson_doneFirst(inv, cfg, o) ==
    LET p90 == TokProgress(inv, 90, "Finalizing tokenization...")
        p100 == TokProgress(inv, 100, "Tokenization completed.")
        data == TokenizedData(o, cfg)
        got == [inv EXCEPT !.result = Some([isNull |-> o.isNull, tokens |-> o.tokens,
                                            token_ids |-> o.token_ids, model |-> o.model])]
    IN CASE o.kind = "reject" -> Seg(TokReject(inv, o.err), <<>>)
         [] o.kind = "json" /\ o.isNull ->
              Seg(TokReject(got, Err("TypeError", <<"Cannot read properties of null">>)), <<p90>>)
         [] o.kind = "json" /\ ~o.isNull /\ (~Truthy(o.tokens) \/ ~IsArray(o.tokens)) ->
              Seg(TokReject(got, Err("Error", <<InvalidResponseMsg>>)), <<p90, p100>>)
         [] OTHER ->
              Seg([got EXCEPT !.pc = "tok_settled", !.tokOk = TRUE, !.tokData = data,
                              !.fallbackModel = IF Truthy(o.model) THEN None
                                                ELSE Some(cfg.modelName)],
                  <<p90, p100>>)

\* response.json() settles: o = [kind |-> "json", isNull, tokens, token_ids, model]
\*                         or [kind |-> "reject", err]
tokenizeText_afterJson(inv, cfg, o) ==
    LET p90 == TokProgress(inv, 90, "Finalizing tokenization...")
        data == TokenizedData(o, cfg)
        got == [inv EXCEPT !.result = Some([isNull |-> o.isNull, tokens |-> o.tokens,
                                            token_ids |-> o.token_ids, model |-> o.model])]
    IN CASE o.kind = "reject" -> Seg(TokReject(inv, o.err), <<>>)
         [] o.kind = "json" /\ o.isNull ->
              Seg(TokReject(got, Err("TypeError", <<"Cannot read properties of null">>)), <<p90>>)
         [] o.kind = "json" /\ ~o.isNull /\ (~Truthy(o.tokens) \/ ~IsArray(o.tokens)) ->
              Seg(TokReject(got, Err("Error", <<InvalidResponseMsg>>)), <<p90>>)
         [] OTHER ->
              Seg([got EXCEPT !.pc = "tok_settled", !.tokOk = TRUE, !.tokData = data,
                              !.fallbackModel = IF Truthy(o.model) THEN None
                                                ELSE Some(cfg.modelName)],
                  <<p90, TokProgress(inv, 100, "Tokenization completed.")>>)

-----------------------------------------------------------------------------
(* TokenizationService: getConfig, testConnection, and what the callers of  *)
(* updateConfig have supplied                                               *)

NothingWritten == [modelName |-> None, azureFunctionUrl |-> None, apiKey |-> None]

\* the fields an updateConfig argument supplies, over those supplied before
Written(written, partial) ==
    [modelName        |-> IF IsSome(partial.modelName) THEN partial.modelName
                          ELSE written.modelName,
     azureFunctionUrl |-> IF IsSome(partial.azureFunctionUrl) THEN partial.azureFunctionUrl
                          ELSE written.azureFunctionUrl,
     apiKey           |-> IF IsSome(partial.apiKey) THEN partial.apiKey
                          ELSE written.apiKey]

\* getConfig(): return { ...this.config }, an object of its own
\*   shared: the object is this.config; fresh: untouched since it was returned
getConfig(cfg) == [obj |-> cfg, shared |-> FALSE, fresh |-> TRUE]

\* obj.modelName = ... / obj.azureFunctionUrl = ... by the holder of the object
Assigned(obj, field) ==
    IF field = "modelName" THEN [obj EXCEPT !.modelName = "assigned"]
    ELSE [obj EXCEPT !.azureFunctionUrl = <<"a">>]

NoOutcome == [kind |-> "", ok |-> FALSE]

\* testConnection up to its await (or its early return)
testConnection_call(cfg) ==
    IF cfg.azureFunctionUrl = <<>>
    THEN [pc |-> "resolved", value |-> FALSE, urlAtCall |-> cfg.azureFunctionUrl,
          requests |-> <<>>, outcome |-> NoOutcome]
    ELSE [pc |-> "fetch", value |-> FALSE, urlAtCall |-> cfg.azureFunctionUrl,
          requests |-> <<[url |-> cfg.azureFunctionUrl,
                          authorization |-> AuthorizationHeader(cfg),
                          model_name |-> cfg.modelName]>>,
          outcome |-> NoOutcome]

\* testConnection_afterFetch letting the rejection of fetch through
testConnection_afterFetch_rethrow(test, o) ==
    IF o.kind = "response"
    THEN [test EXCEPT !.pc = "resolved", !.value = o.ok,
                      !.outcome = [kind |-> o.kind, ok |-> o.ok]]
    ELSE [test EXCEPT !.pc = "rejected", !.outcome = [kind |-> o.kind, ok |-> FALSE]]

\* after await fetch: return response.ok; catch: return false
testConnection_afterFetch(test, o) ==
    IF o.kind = "response"
    THEN [test EXCEPT !.pc = "resolved", !.value = o.ok,
                      !.outcome = [kind |-> o.kind, ok |-> o.ok]]
    ELSE [test EXCEPT !.pc = "resolved", !.value = FALSE,
                      !.outcome = [kind |-> o.kind, ok |-> FALSE]]

-----------------------------------------------------------------------------
(* extractText after its awaits *)

\* Normalized counting the words of the preprocessed text
Normalized_countProcessed(inv) ==
    LET preprocessed == preprocessText(inv.extractedText, DefaultOptions)
    IN [inv EXCEPT !.normCalls = @ + 1,
                   !.wordCount = WordCount(preprocessed),
                   !.preprocessedText = preprocessed,
                   !.preprocessingStats =
                       getPreprocessingStats(inv.extractedText, preprocessed)]

\* const wordCount = ...; preprocessedText = preprocessor.preprocessText(
\* extractedText); preprocessingStats = preprocessor.getPreprocessingStats(...)
Normalized(inv) ==
    CHOOSE out \in
        {[inv EXCEPT !.normCalls = @ + 1,
                     !.wordCount = WordCount(extractedText),
                     !.preprocessedText = preprocessedText,
                     !.preprocessingStats =
                         getPreprocessingStats(extractedText, preprocessedText)] :
            <<extractedText, preprocessedText>> \in
                {<<inv.extractedText, preprocessText(inv.extractedText, DefaultOptions)>>}} :
        TRUE

\* extractText_afterAdapter with the adapter's rejection swallowed
extractText_afterAdapter_swallow(inv, cfg) ==
    LET tok == CHOOSE t \in {tokenizeText_call(n, n.preprocessedText, cfg) :
                                n \in {Normalized(inv)}} : TRUE
    IN Seg(tok.inv,
           <<Ev("extractText", Status(inv.file.name, Extracting, Pct(95),
                                      "Finalizing extraction...", None)),
             Ev("extractText", Status(inv.file.name, Extracting, Pct(96),
                                      "Tokenizing text...", None))>> \o tok.out)

\* extractText_afterAdapter handing the extracted text to the tokenizer
extractText_afterAdapter_rawText(inv, cfg) ==
    IF ~inv.adapterOk THEN extractText_catch(inv, <<>>, inv.adapterErr)
    ELSE LET p95 == Ev("extractText", Status(inv.file.name, Extracting, Pct(95),
                                             "Finalizing extraction...", None))
             p96 == Ev("extractText", Status(inv.file.name, Extracting, Pct(96),
                                             "Tokenizing text...", None))
             tok == CHOOSE t \in {tokenizeText_call(n, n.extractedText, cfg) :
                                     n \in {Normalized(inv)}} : TRUE
         IN Seg(tok.inv, <<p95, p96>> \o tok.out)

\* after `await this.extractFromX(file, onProgress)`, up to the await of
\* tokenizeText
extractText_afterAdapter(inv, cfg) ==
    IF ~inv.adapterOk THEN extractText_catch(inv, <<>>, inv.adapterErr)
    ELSE LET p95 == Ev("extractText", Status(inv.file.name, Extracting, Pct(95),
                                             "Finalizing extraction...", None))
             p96 == Ev("extractText", Status(inv.file.name, Extracting, Pct(96),
                                             "Tokenizing text...", None))
             \* tokenizer.tokenizeText(preprocessedText, ...)
             tok == CHOOSE t \in {tokenizeText_call(n, n.preprocessedText, cfg) :
                                     n \in {Normalized(inv)}} : TRUE
         IN Seg(tok.inv, <<p95, p96>> \o tok.out)

\* const result: ExtractedDocument = { id: `${file.name}-${startTime}`, ... }
Document(inv) ==
    [id |-> <<inv.file.name, inv.startTime>>,
     fileName |-> inv.file.name, fileType |-> inv.file.type,
     extractedText |-> inv.extractedText,
     preprocessedText |-> inv.preprocessedText,
     tokenizedData |-> IF inv.tokOk THEN Some(inv.tokData) ELSE None,
     wordCount |-> inv.wordCount,
     metadata |-> [preprocessingStats |-> inv.preprocessingStats]]

\* extractText_afterTokenize without the inner try/catch: a tokenizer failure
\* reaches the outer catch block
extractText_afterTokenize_noInnerCatch(inv) ==
    IF ~inv.tokOk THEN extractText_catch(inv, <<>>, inv.tokErr)
    ELSE Seg([inv EXCEPT !.pc = "resolved",
                         !.doc = Document(inv)],
             <<Ev("extractText", Status(inv.file.name, Completed, Pct(100),
                                        "Extraction completed.", None))>>)

\* after `await tokenizer.tokenizeText(...)`: the inner catch, the result, the
\* completed status
extractText_afterTokenize(inv) ==
    LET unavailable == Ev("extractText",
                          Status(inv.file.name, Extracting, Pct(99),
                                 "Tokenization unavailable, finalizing extraction...", None))
        completed == Ev("extractText",
                        Status(inv.file.name, Completed, Pct(100),
                               "Extraction completed.", None))
    IN Seg([inv EXCEPT !.pc = "resolved", !.doc = Document(inv)],
           (IF inv.tokOk THEN <<>> ELSE <<unavailable>>) \o <<completed>>)

-----------------------------------------------------------------------------
(* App.processDocuments: one run per call                                  *)
(*   files         the argument                                            *)
(*   inv           one extractText invocation per file ("idle": not called)*)
(*   i             the loop's position                                     *)
(*   snapshot      extractedDocuments as the callback's closure holds it   *)
(*   newDocuments  the local array                                         *)
(*   reused        the positions served from the snapshot                  *)
(*   pc            "awaiting" (suspended at await extractText) | "done"    *)
(***************************************************************************)

\* the emissions `out` of file k of a run
RECURSIVE TagK(_, _)
TagK(out, k) ==
    IF out = <<>> THEN <<>>
    ELSE <<[k |-> k, by |-> Head(out).by, st |-> Head(out).st]>> \o TagK(Tail(out), k)

\* the log entries of the emissions `out` (tagged with k) of run r
RECURSIVE TagRun(_, _)
TagRun(out, r) ==
    IF out = <<>> THEN <<>>
    ELSE <<[run |-> r, k |-> Head(out).k, by |-> Head(out).by, st |-> Head(out).st]>>
         \o TagRun(Tail(out), r)

\* AlreadyProcessed comparing the file name only
AlreadyProcessed_byName(docs, file) ==
    {j \in 1..Len(docs) : docs[j].fileName = file.name}

\* extractedDocuments.find(doc => doc.fileName === name && doc.fileType === type):
\* the positions that match
AlreadyProcessed(docs, file) ==
    {j \in 1..Len(docs) : docs[j].fileName = file.name /\ docs[j].fileType = file.type}

Min(S) == CHOOSE x \in S : \A y \in S : x <= y

NewRun(files, docs) ==
    [files |-> files, inv |-> [k \in 1..Len(files) |-> NewInv(files[k])],
     i |-> 1, snapshot |-> docs, newDocuments |-> <<>>, reused |-> {}, pc |-> "awaiting"]

RECURSIVE processDocuments_loop(_, _)
\* the for loop from position i up to the next await (or the end of the loop)
processDocuments_loop(run, i) ==
    IF i > Len(run.files)
    THEN [run |-> [run EXCEPT !.i = i, !.pc = "done"], out |-> <<>>]
    ELSE LET hits == AlreadyProcessed(run.snapshot, run.files[i])
         IN IF hits # {}
            THEN processDocuments_loop(
                     [run EXCEPT !.newDocuments = Append(@, run.snapshot[Min(hits)]),
                                 !.reused = @ \cup {i}],
                     i + 1)
            ELSE LET seg == extractText_call(run.inv[i])
                 IN [run |-> [run EXCEPT !.i = i, !.inv[i] = seg.inv, !.pc = "awaiting"],
                     out |-> TagK(seg.out, i)]

\* AwaitOver with the await missing: the loop goes on at once
AwaitOver_missing(inv) == TRUE

\* `await extractor.extractText(...)` lets the loop go on
AwaitOver(inv) == Settled(inv)

\* processDocuments_resume without the try/catch of the loop body: a rejection
\* ends the loop
processDocuments_resume_noCatch(run) ==
    IF run.inv[run.i].pc = "resolved"
    THEN processDocuments_loop([run EXCEPT !.newDocuments = Append(@, run.inv[run.i].doc)],
                               run.i + 1)
    ELSE [run |-> [run EXCEPT !.pc = "done"], out |-> <<>>]

\* after the await: push the document, or the catch block; then the loop
processDocuments_resume(run) ==
    LET i == run.i
        inv == run.inv[i]
        failed == Ev("processDocuments",
                     Status(run.files[i].name, Error, 0, "Processing failed",
                            Some(inv.error.message)))
        next == processDocuments_loop(
                    IF inv.pc = "resolved"
                    THEN [run EXCEPT !.newDocuments = Append(@, inv.doc)]
                    ELSE run,
                    i + 1)
    IN [run |-> next.run,
        out |-> (IF inv.pc = "resolved" THEN <<>> ELSE TagK(<<failed>>, i)) \o next.out]

\* The effects of a segment of run r on the App: the statuses, and at the end
\* of the loop setExtractedDocuments(newDocuments); setIsProcessing(false)
Commit(r, res) ==
    /\ log' = log \o TagRun(res.out, r)
    /\ processingStatuses' = ApplyStatuses(processingStatuses, res.out)
    /\ IF res.run.pc = "done"
       THEN extractedDocuments' = res.run.newDocuments /\ isProcessing' = FALSE
       ELSE UNCHANGED <<extractedDocuments, isProcessing>>

\* The record kept of a finished run once the user makes a new selection:
\* the program holds nothing of it any more (its result is in the App state)
Forgotten == [NewRun(<<>>, <<>>) EXCEPT !.pc = "done"]
Forget(rs) == [j \in 1..Len(rs) |-> IF rs[j].pc = "done" THEN Forgotten ELSE rs[j]]
AllDone(rs) == \A j \in 1..Len(rs) : rs[j].pc = "done"

\* App.handleFilesSelected(files): setUploadedFiles; processDocuments(files)
handleFilesSelected(files) ==
    /\ uploadedFiles' = files
    /\ UNCHANGED <<config, client, now, preprocessor>>
    /\ IF files = <<>>
       THEN /\ processingStatuses' = <<>>
            /\ extractedDocuments' = <<>>
            /\ runs' = Append(Forget(runs), Forgotten)
            /\ log' = IF AllDone(runs) THEN <<>> ELSE log
            /\ UNCHANGED isProcessing
       ELSE LET r == Len(runs) + 1
                res == processDocuments_loop(NewRun(files, extractedDocuments), 1)
            IN /\ runs' = Append(Forget(runs), res.run)
               /\ log' = (IF AllDone(runs) THEN <<>> ELSE log) \o TagRun(res.out, r)
               /\ processingStatuses' = ApplyStatuses(processingStatuses, res.out)
               /\ IF res.run.pc = "done"
                  THEN extractedDocuments' = res.run.newDocuments /\ isProcessing' = FALSE
                  ELSE isProcessing' = TRUE /\ UNCHANGED extractedDocuments

\* processDocuments resumes after its await
ProcessDocumentsResume(r) ==
    /\ runs[r].pc = "awaiting"
    /\ AwaitOver(runs[r].inv[runs[r].i])
    /\ LET res == processDocuments_resume(runs[r])
       IN /\ runs' = [runs EXCEPT ![r] = res.run]
          /\ Commit(r, res)
    /\ UNCHANGED <<config, uploadedFiles, client, now, widget, preprocessor>>

-----------------------------------------------------------------------------
(* FileUpload: validateFile, handleFiles, removeFile, clearAll. A File is   *)
(* [name, type, size]; an UploadedFile adds the id.                         *)

ALLOWED_FILE_TYPES == {PDF, DOCX, MSWORD, TXT}
MAX_FILE_SIZE == 50 * 1024 * 1024
\* <FileUpload maxFiles={5} .../>
maxFiles == 5

\* validateFile(file): { isValid, error }
validateFile(file) ==
    CASE file.type \notin ALLOWED_FILE_TYPES ->
             [isValid |-> FALSE, error |-> "File type not supported."]
      [] file.type \in ALLOWED_FILE_TYPES /\ file.size > MAX_FILE_SIZE ->
             [isValid |-> FALSE, error |-> "File size exceeds limit."]
      [] file.type \in ALLOWED_FILE_TYPES /\ file.size = 0 ->
             [isValid |-> FALSE, error |-> "File is empty."]
      [] OTHER -> [isValid |-> TRUE, error |-> ""]

\* uploadedFiles.some(existing => existing.name === file.name
\*                                && existing.size === file.size)
IsDuplicate(uploaded, file) ==
    \E j \in 1..Len(uploaded) :
        uploaded[j].name = file.name /\ uploaded[j].size = file.size

\* the entry handleFiles pushes for the file at `index` of the selection
UploadedFile(file, index) ==
    [id |-> <<file.name, now, index>>, name |-> file.name, size |-> file.size,
     type |-> file.type]

\* handleFiles: the forEach over the selection, giving validFiles
ValidFiles(fileArray, uploaded) ==
    LET kept == SelectSeq([i \in 1..Len(fileArray) |-> i],
                          LAMBDA i : /\ validateFile(fileArray[i]).isValid
                                     /\ ~IsDuplicate(uploaded, fileArray[i]))
    IN [j \in 1..Len(kept) |-> UploadedFile(fileArray[kept[j]], kept[j] - 1)]

\* the limit test looking at the selection alone
OverLimit_selectionOnly(uploaded, validFiles) == Len(validFiles) > maxFiles

\* if (uploadedFiles.length + validFiles.length > maxFiles)
OverLimit(uploaded, validFiles) == Len(uploaded) + Len(validFiles) > maxFiles

\* what the component remembers of a handler call: the handler, its list and
\* the number of onFilesSelected calls before it, the files it accepted
NoSelection == [op |-> "none", uploadedFiles |-> <<>>, calls |-> 0, validFiles |-> <<>>]
Handled(op, validFiles) ==
    [op |-> op, uploadedFiles |-> widget.uploadedFiles, calls |-> Len(runs),
     validFiles |-> validFiles]

\* a continuation of the pipeline is queued as a microtask: it runs before the
\* browser delivers the next user event
MicrotaskPending ==
    \E r \in 1..Len(runs) :
        /\ runs[r].pc = "awaiting"
        /\ runs[r].inv[runs[r].i].pc \in {"adapter_settled", "tok_settled",
                                          "resolved", "rejected"}

\* handleDrop / handleChange -> handleFiles(files); the drop zone and the
\* input are disabled while isProcessing
HandleFiles(files) ==
    /\ ~MicrotaskPending
    /\ ~isProcessing
    /\ files # <<>>
    /\ LET validFiles == ValidFiles(files, widget.uploadedFiles)
           updatedFiles == widget.uploadedFiles \o validFiles
       IN IF OverLimit(widget.uploadedFiles, validFiles) \/ validFiles = <<>>
          THEN /\ widget' = [widget EXCEPT !.last = Handled("handleFiles", validFiles)]
               /\ UNCHANGED <<config, uploadedFiles, processingStatuses,
                              extractedDocuments, isProcessing, runs, log, client, now,
                              preprocessor>>
          ELSE /\ Len(runs) < MaxSelections
               /\ widget' = [uploadedFiles |-> updatedFiles,
                             last |-> Handled("handleFiles", validFiles)]
               /\ handleFilesSelected(updatedFiles)

\* the processDocuments calls that have not returned
InFlight == {r \in 1..Len(runs) : runs[r].pc # "done"}

\* removeFile(fileId): not guarded by `disabled`
RemoveFile(fileId) ==
    /\ ~MicrotaskPending
    /\ Len(runs) < MaxSelections
    /\ Cardinality(InFlight) <= MaxOverlap
    /\ LET updatedFiles == SelectSeq(widget.uploadedFiles, LAMBDA file : file.id # fileId)
       IN /\ widget' = [uploadedFiles |-> updatedFiles,
                        last |-> Handled("removeFile", <<>>)]
          /\ handleFilesSelected(updatedFiles)

\* clearAll(): not guarded by `disabled`
ClearAll ==
    /\ ~MicrotaskPending
    /\ Len(runs) < MaxSelections
    /\ Cardinality(InFlight) <= MaxOverlap
    /\ widget.uploadedFiles # <<>>
    /\ widget' = [uploadedFiles |-> <<>>, last |-> Handled("clearAll", <<>>)]
    /\ handleFilesSelected(<<>>)

\* a millisecond passes
Tick ==
    /\ now < MaxTime
    /\ now' = now + 1
    /\ UNCHANGED <<config, uploadedFiles, processingStatuses, extractedDocuments,
                   isProcessing, runs, log, client, widget, preprocessor>>

\* a caller calls preprocessText(rawText, options)
PreprocessTextCall(rawText, options) ==
    /\ preprocessor.op = "none"
    /\ preprocessor' = [preprocessor EXCEPT
                            !.op = "preprocessText", !.rawText = rawText,
                            !.options = options,
                            !.returned = preprocessText(rawText, options)]
    /\ UNCHANGED <<config, uploadedFiles, processingStatuses, extractedDocuments,
                   isProcessing, runs, log, client, now, widget>>

\* the caller calls getPreprocessingStats(rawText, processedText)
GetPreprocessingStatsCall(processedText) ==
    /\ preprocessor.op = "preprocessText"
    /\ preprocessor' = [preprocessor EXCEPT
                            !.op = "getPreprocessingStats",
                            !.processedText = processedText,
                            !.stats = getPreprocessingStats(preprocessor.rawText,
                                                            processedText)]
    /\ UNCHANGED <<config, uploadedFiles, processingStatuses, extractedDocuments,
                   isProcessing, runs, log, client, now, widget>>

-----------------------------------------------------------------------------
(* The steps of an extractText invocation: the awaited promise settles and *)
(* the code runs up to the next await.                                     *)

\* invocation k of run r goes on with segment seg
Resume(r, k, seg) ==
    /\ \E done \in {seg} :
           /\ runs' = [runs EXCEPT ![r].inv[k] = done.inv]
           /\ log' = log \o TagRun(TagK(done.out, k), r)
           /\ processingStatuses' = ApplyStatuses(processingStatuses, done.out)
    /\ UNCHANGED <<config, uploadedFiles, extractedDocuments, isProcessing, client,
                   now, widget, preprocessor>>

At(r, k, pc) == runs[r].inv[k].pc = pc

\* extractFromPDF: await file.arrayBuffer()
PdfArrayBuffer(r, k, ok) ==
    /\ At(r, k, "pdf_arrayBuffer")
    /\ LET inv == runs[r].inv[k]
       IN Resume(r, k, IF ok THEN Seg([inv EXCEPT !.pc = "pdf_getDocument"], <<>>)
                       ELSE Seg(AdapterThrow(inv, PdfCorrupt), <<>>))

\* extractFromPDF: await getDocument(...).promise, with numPages = n
PdfGetDocument(r, k, ok, n) ==
    /\ At(r, k, "pdf_getDocument")
    /\ LET inv == runs[r].inv[k]
       IN Resume(r, k, IF ok THEN extractFromPDF_loop([inv EXCEPT !.numPages = n], 1)
                       ELSE Seg(AdapterThrow(inv, PdfCorrupt), <<>>))

\* extractFromPDF: await pdf.getPage(pageNum)
PdfGetPage(r, k, ok) ==
    /\ At(r, k, "pdf_getPage")
    /\ LET inv == runs[r].inv[k]
       IN Resume(r, k, IF ok THEN Seg([inv EXCEPT !.pc = "pdf_getTextContent"], <<>>)
                       ELSE Seg(AdapterThrow(inv, PdfCorrupt), <<>>))

\* extractFromPDF: await page.getTextContent(), pageText the items' strings
\* joined by ' '; fullText += pageText + '\n\n'; then the next page
PdfGetTextContent(r, k, ok, pageText) ==
    /\ At(r, k, "pdf_getTextContent")
    /\ LET inv == runs[r].inv[k]
       IN Resume(r, k, IF ok
                       THEN extractFromPDF_loop(
                                [inv EXCEPT !.fullText = @ \o pageText \o <<"\n", "\n">>],
                                inv.pageNum + 1)
                       ELSE Seg(AdapterThrow(inv, PdfCorrupt), <<>>))

\* extractFromDocx: await import('mammoth'), then file.arrayBuffer()
DocxImport(r, k, ok) ==
    /\ At(r, k, "docx_import")
    /\ LET inv == runs[r].inv[k]
       IN Resume(r, k, IF ok THEN Seg([inv EXCEPT !.reads = @ + 1,
                                                  !.pc = "docx_arrayBuffer"], <<>>)
                       ELSE Seg(AdapterThrow(inv, DocxCorrupt), <<>>))

\* extractFromDocx: await file.arrayBuffer(), then mammoth.extractRawText
DocxArrayBuffer(r, k, ok) ==
    /\ At(r, k, "docx_arrayBuffer")
    /\ LET inv == runs[r].inv[k]
       IN Resume(r, k,
                 IF ok THEN Seg([inv EXCEPT !.pc = "docx_extractRawText"],
                                <<Ev("extractFromDocx",
                                     Status(inv.file.name, Extracting, Pct(60),
                                            "Extracting text content...", None))>>)
                 ELSE Seg(AdapterThrow(inv, DocxCorrupt), <<>>))

\* extractFromDocx: await mammoth.extractRawText({ arrayBuffer })
DocxExtractRawText(r, k, ok, value) ==
    /\ At(r, k, "docx_extractRawText")
    /\ LET inv == runs[r].inv[k]
       IN Resume(r, k, IF ok THEN Seg(AdapterReturn(inv, value), <<>>)
                       ELSE Seg(AdapterThrow(inv, DocxCorrupt), <<>>))

\* extractFromText: await file.text()
TxtText(r, k, ok, text) ==
    /\ At(r, k, "txt_text")
    /\ LET inv == runs[r].inv[k]
       IN Resume(r, k, IF ok THEN Seg(AdapterReturn(inv, text), <<>>)
                       ELSE Seg(AdapterThrow(inv, TextUnreadable), <<>>))

\* extractText resumes after the adapter's promise has settled
ExtractTextAfterAdapter(r, k) ==
    /\ At(r, k, "adapter_settled")
    /\ Resume(r, k, extractText_afterAdapter(runs[r].inv[k], config))

\* The 30 s timer of tokenizeText fires: controller.abort()
TimerFires(r, k) ==
    /\ runs[r].inv[k].timer = "armed"
    /\ Resume(r, k, Seg([runs[r].inv[k] EXCEPT !.timer = "fired",
                                                !.abortedAt = runs[r].inv[k].pc], <<>>))

AbortError == Err("AbortError", <<"signal is aborted without reason">>)

\* tokenizeText: await fetch(...); an aborted fetch rejects with AbortError
TokFetch(r, k, o) ==
    /\ At(r, k, "tok_fetch")
    /\ LET inv == runs[r].inv[k]
       IN Resume(r, k, tokenizeText_afterFetch(inv, IF inv.timer = "fired"
                                                    THEN [kind |-> "reject", err |-> AbortError]
                                                    ELSE o))

\* tokenizeText: await response.text()
TokText(r, k, o) ==
    /\ At(r, k, "tok_text")
    /\ Resume(r, k, tokenizeText_afterText(runs[r].inv[k], o))

\* tokenizeText: await response.json()
TokJson(r, k, o) ==
    /\ At(r, k, "tok_json")
    /\ Resume(r, k, tokenizeText_afterJson(runs[r].inv[k], config, o))

\* extractText resumes after tokenizeText's promise has settled
ExtractTextAfterTokenize(r, k) ==
    /\ At(r, k, "tok_settled")
    /\ Resume(r, k, extractText_afterTokenize(runs[r].inv[k]))

\* TokenizationService.updateConfig(partial): this.config becomes a new object
UpdateConfig(partial) ==
    /\ config' = MergeConfig(config, partial)
    /\ client' = [client EXCEPT
                      !.written = Written(@, partial),
                      !.got = IF IsSome(@)
                              THEN Some([Get(@) EXCEPT !.shared = FALSE, !.fresh = FALSE])
                              ELSE @]
    /\ UNCHANGED <<uploadedFiles, processingStatuses, extractedDocuments, isProcessing,
                   runs, log, now, widget, preprocessor>>

\* a caller takes TokenizationService.getConfig()
GetConfig ==
    /\ client' = [client EXCEPT !.got = Some(getConfig(config))]
    /\ UNCHANGED <<config, uploadedFiles, processingStatuses, extractedDocuments,
                   isProcessing, runs, log, now, widget, preprocessor>>

\* the caller assigns a field of the object getConfig returned
MutateReturned(field) ==
    /\ IsSome(client.got)
    /\ LET got == Get(client.got)
       IN /\ client' = [client EXCEPT
                            !.got = Some([got EXCEPT !.obj = Assigned(got.obj, field),
                                                     !.fresh = FALSE])]
          /\ config' = IF got.shared THEN Assigned(config, field) ELSE config
    /\ UNCHANGED <<uploadedFiles, processingStatuses, extractedDocuments, isProcessing,
                   runs, log, now, widget, preprocessor>>

\* a caller calls TokenizationService.testConnection()
TestConnectionCall ==
    /\ Len(client.tests) < MaxTests
    /\ client' = [client EXCEPT !.tests = Append(@, testConnection_call(config))]
    /\ UNCHANGED <<config, uploadedFiles, processingStatuses, extractedDocuments,
                   isProcessing, runs, log, now, widget, preprocessor>>

\* testConnection: await fetch(...)
TestConnectionFetch(j, o) ==
    /\ client.tests[j].pc = "fetch"
    /\ client' = [client EXCEPT !.tests[j] = testConnection_afterFetch(@, o)]
    /\ UNCHANGED <<config, uploadedFiles, processingStatuses, extractedDocuments,
                   isProcessing, runs, log, now, widget, preprocessor>>

-----------------------------------------------------------------------------
(* TokenizationConfig, the configuration panel of the header. Its state:   *)
(*   config      the form (useState config)                                *)
(*   isOpen, isTesting, testResult ("": null)                              *)
(*   test        the position in client.tests of the test handleTest awaits *)
(*   testedFrom  the service configuration before the first handleTest     *)
(*               since the last handleSave                                 *)
(*   last        the handler that ran last                                 *)

\* the panel after its mount effect: setConfig(tokenizer.getConfig())
PanelMounted(cfg) ==
    [config |-> cfg, isOpen |-> FALSE, isTesting |-> FALSE, testResult |-> "",
     test |-> 0, testedFrom |-> None, last |-> "mount"]

\* the form as the argument of updateConfig: every field is supplied
FormPartial(form) ==
    [modelName |-> Some(form.modelName),
     azureFunctionUrl |-> Some(form.azureFunctionUrl),
     apiKey |-> Some(form.apiKey)]

\* tokenizer.updateConfig(config) called by the panel
PanelUpdateConfig(panel) ==
    /\ config' = MergeConfig(config, FormPartial(client.panel.config))
    /\ client' = [client EXCEPT
                      !.written = Written(@, FormPartial(client.panel.config)),
                      !.got = IF IsSome(@)
                              THEN Some([Get(@) EXCEPT !.shared = FALSE, !.fresh = FALSE])
                              ELSE @,
                      !.tests = IF panel.last = "handleTest"
                                THEN Append(@, testConnection_call(config'))
                                ELSE @,
                      !.panel = panel]

PanelFrame ==
    UNCHANGED <<uploadedFiles, processingStatuses, extractedDocuments, isProcessing,
                runs, log, now, widget, preprocessor>>

\* the "Tokenizer Config" button: setIsOpen(!isOpen)
PanelToggle ==
    /\ client' = [client EXCEPT !.panel.isOpen = ~@, !.panel.last = "toggle"]
    /\ UNCHANGED config /\ PanelFrame

\* an input's onChange: setConfig(prev => ({ ...prev, [field]: value }))
PanelEdit(field, value) ==
    /\ client.panel.isOpen
    /\ client' = [client EXCEPT !.panel.config[field] = value, !.panel.last = "edit"]
    /\ UNCHANGED config /\ PanelFrame

\* handleReset
HandleReset ==
    /\ client.panel.isOpen
    /\ client' = [client EXCEPT
                      !.panel.config = [modelName |-> "gpt2", azureFunctionUrl |-> <<>>,
                                        apiKey |-> Some("")],
                      !.panel.testResult = "", !.panel.last = "handleReset"]
    /\ UNCHANGED config /\ PanelFrame

\* handleSave: updateConfig(config); setIsOpen(false); setTestResult(null)
HandleSave ==
    /\ client.panel.isOpen
    /\ PanelUpdateConfig([client.panel EXCEPT !.isOpen = FALSE, !.testResult = "",
                                              !.testedFrom = None, !.last = "handleSave"])
    /\ PanelFrame

\* handleTest up to `await tokenizer.testConnection()`; the button is
\* disabled={isTesting || !config.azureFunctionUrl}
HandleTest ==
    /\ client.panel.isOpen
    /\ ~client.panel.isTesting
    /\ client.panel.config.azureFunctionUrl # <<>>
    /\ Len(client.tests) < MaxTests
    /\ PanelUpdateConfig([client.panel EXCEPT
                              !.isTesting = TRUE, !.testResult = "",
                              !.test = Len(client.tests) + 1,
                              !.testedFrom = IF IsSome(@) THEN @ ELSE Some(config),
                              !.last = "handleTest"])
    /\ PanelFrame

\* handleTest after its await: setTestResult; finally setIsTesting(false)
HandleTestResume ==
    /\ client.panel.isTesting
    /\ client.tests[client.panel.test].pc = "resolved"
    /\ client' = [client EXCEPT
                      !.panel.isTesting = FALSE,
                      !.panel.testResult = IF client.tests[client.panel.test].value
                                           THEN "success" ELSE "error",
                      !.panel.last = IF @ = "cancel" THEN @ ELSE "handleTest done"]
    /\ UNCHANGED config /\ PanelFrame

\* the Cancel button: setIsOpen(false)
PanelCancel ==
    /\ client.panel.isOpen
    /\ client' = [client EXCEPT !.panel.isOpen = FALSE, !.panel.last = "cancel"]
    /\ UNCHANGED config /\ PanelFrame

-----------------------------------------------------------------------------
(* The environment: files, the outcomes of the awaited calls, the updates  *)

FileNames == {"a.txt", "b.txt"}
MediaTypes == {PDF, DOCX, MSWORD, TXT, "image/png"}
Files == [name : FileNames, type : MediaTypes]

\* what a file holds: nothing; a field label inside a word, between blanks
Texts == {<<>>, <<" ", "x", "A", "A", "A", ":", " ", " ", "x">>}
\* the text of a PDF page
PageTexts == {<<>>, <<"x", " ">>}

\* the sequences over S of length at most n
SeqsUpTo(S, n) == UNION {[1..m -> S] : m \in 0..n}

Response(ok, status, statusText) ==
    [kind |-> "response", ok |-> ok, status |-> status, statusText |-> statusText,
     err |-> NoErr]
Rejected(err) ==
    [kind |-> "reject", ok |-> FALSE, status |-> "", statusText |-> "", err |-> err]

\* fetch: a 2xx response, a non-2xx response, a network failure
FetchOutcomes ==
    {Response(TRUE, "200", "OK"), Response(FALSE, "500", "Internal Server Error"),
     Rejected(Err("TypeError", <<"Failed to fetch">>))}

Body(text) == [kind |-> "body", body |-> text, err |-> NoErr]
BodyRejected(err) == [kind |-> "reject", body |-> "", err |-> err]

\* response.text(): a body, or the connection drops
TextOutcomes ==
    {Body("boom"), Body("upstream said: Failed to fetch"), Body("blocked by CORS policy"),
     BodyRejected(Err("TypeError", <<"Load failed">>))}

Json(tokens, token_ids, model) ==
    [kind |-> "json", isNull |-> FALSE, tokens |-> tokens, token_ids |-> token_ids,
     model |-> model, err |-> NoErr]
JsonNull ==
    [kind |-> "json", isNull |-> TRUE, tokens |-> JsUndefined, token_ids |-> JsUndefined,
     model |-> JsUndefined, err |-> NoErr]
JsonRejected(err) ==
    [kind |-> "reject", isNull |-> FALSE, tokens |-> JsUndefined,
     token_ids |-> JsUndefined, model |-> JsUndefined, err |-> err]

TokenArrays == {JsArray([j \in 1..n |-> "tok"]) : n \in 0..MaxTokens}
IdArrays == {JsArray([j \in 1..n |-> "id"]) : n \in 0..MaxTokens}

\* response.json(): a JSON value, or a body that is not JSON
JsonOutcomes ==
    {Json(t, ids, m) : t \in TokenArrays \cup {JsUndefined, JsString("none")},
                       ids \in IdArrays \cup {JsUndefined},
                       m \in {JsUndefined, JsString("gpt2")}}
    \cup {JsonNull, JsonRejected(Err("SyntaxError", <<"Unexpected token < in JSON">>))}

Partial(modelName, azureFunctionUrl, apiKey) ==
    [modelName |-> modelName, azureFunctionUrl |-> azureFunctionUrl, apiKey |-> apiKey]

\* the updates of the service URL: emptied, blanked, set
UrlUpdates == {Partial(None, Some(u), None) : u \in {<<>>, <<" ">>, <<"u">>}}

\* the update of the model name
ModelUpdates == {Partial(Some("other-model"), None, None)}

-----------------------------------------------------------------------------
(* Spec: one extractText invocation (the user selects one file), with      *)
(* every outcome of every awaited call, the timer and updateConfig         *)

\* The state after construction, the service built from one of `envs`, the
\* values of (VITE_AZURE_TOKENIZER_URL, VITE_AZURE_TOKENIZER_KEY)
InitWith(envs) ==
    /\ config \in {TokenizationServiceNew(e[1], e[2]) : e \in envs}
    /\ uploadedFiles = <<>>
    /\ processingStatuses = <<>>
    /\ extractedDocuments = <<>>
    /\ isProcessing = FALSE
    /\ runs = <<>>
    /\ log = <<>>
    /\ client = [startup |-> config, written |-> NothingWritten, got |-> None,
                 tests |-> <<>>, panel |-> PanelMounted(config)]
    /\ now = 0
    /\ preprocessor = NoCall
    /\ widget = [uploadedFiles |-> <<>>, last |-> NoSelection]

Envs == {None, Some(<<>>), Some(PlaceholderUrl), Some(<<"u">>)} \X {None, Some("key")}

Init == InitWith(Envs)

SelectOne ==
    \E f \in Files : runs = <<>> /\ handleFilesSelected(<<f>>) /\ UNCHANGED widget

PdfStep(r, k) ==
    \E ok \in BOOLEAN :
        \/ PdfArrayBuffer(r, k, ok)
        \/ \E n \in 0..MaxPages : PdfGetDocument(r, k, ok, n)
        \/ PdfGetPage(r, k, ok)
        \/ \E pageText \in PageTexts : PdfGetTextContent(r, k, ok, pageText)

DocxStep(r, k) ==
    \E ok \in BOOLEAN :
        \/ DocxImport(r, k, ok)
        \/ DocxArrayBuffer(r, k, ok)
        \/ \E value \in Texts : DocxExtractRawText(r, k, ok, value)

TxtStep(r, k) == \E ok \in BOOLEAN : \E text \in Texts : TxtText(r, k, ok, text)

TokenizerStep(r, k) ==
    \/ \E o \in FetchOutcomes : TokFetch(r, k, o)
    \/ \E o \in TextOutcomes : TokText(r, k, o)
    \/ \E o \in JsonOutcomes : TokJson(r, k, o)

ExtractTextStep(r, k) ==
    \/ ExtractTextAfterAdapter(r, k)
    \/ ExtractTextAfterTokenize(r, k)

AppStep == \E r \in 1..Len(runs) : ProcessDocumentsResume(r)

ConfigStep == \E p \in UrlUpdates \cup ModelUpdates : UpdateConfig(p)

Next ==
    \/ SelectOne
    \/ \E r \in 1..Len(runs) : \E k \in 1..Len(runs[r].files) :
           \/ PdfStep(r, k)
           \/ DocxStep(r, k)
           \/ TxtStep(r, k)
           \/ TokenizerStep(r, k)
           \/ TimerFires(r, k)
           \/ ExtractTextStep(r, k)
    \/ AppStep
    \/ ConfigStep

Spec == Init /\ [][Next]_vars

-----------------------------------------------------------------------------
(* SpecLive: Spec with the fairness the runtime gives. A settled promise's  *)
(* continuation runs; local reads and parsers answer; an armed timer fires; *)
(* a fetch whose signal was aborted rejects. The remote service is under no *)
(* obligation: nothing forces a response or a body to arrive.               *)

\* the continuations and the local I/O of the pipeline
LocalStep ==
    \/ \E r \in 1..Len(runs) : \E k \in 1..Len(runs[r].files) :
           \/ PdfStep(r, k)
           \/ DocxStep(r, k)
           \/ TxtStep(r, k)
           \/ ExtractTextStep(r, k)
    \/ AppStep

\* setTimeout(() => controller.abort(), 30000) comes due
TimerStep == \E r \in 1..Len(runs) : \E k \in 1..Len(runs[r].files) : TimerFires(r, k)

\* the pending fetch of an aborted signal rejects
AbortStep ==
    \E r \in 1..Len(runs) : \E k \in 1..Len(runs[r].files) :
        /\ runs[r].inv[k].timer = "fired"
        /\ \E o \in FetchOutcomes : TokFetch(r, k, o)

SpecLive ==
    /\ Init /\ [][Next]_vars
    /\ WF_vars(LocalStep)
    /\ WF_vars(TimerStep)
    /\ WF_vars(AbortStep)

-----------------------------------------------------------------------------
(* SpecBatch: one processDocuments run over up to MaxFiles files. The      *)
(* files are plain-text and legacy-Word files; every read may fail; the    *)
(* service answers within the 30 s or is unreachable.                      *)

BatchFiles == [name : FileNames, type : {TXT, MSWORD}]

\* the content of every file of the batch
BatchText == <<"x", " ", "x">>

BatchFetchOutcomes ==
    {Response(TRUE, "200", "OK"), Rejected(Err("TypeError", <<"Failed to fetch">>))}

BatchJsonOutcomes == {Json(JsArray(<<"tok">>), JsArray(<<"id">>), JsUndefined)}

InitBatch == InitWith({<<None, None>>})

SelectBatch ==
    \E files \in SeqsUpTo(BatchFiles, MaxFiles) :
        runs = <<>> /\ handleFilesSelected(files) /\ UNCHANGED widget

BatchStep(r, k) ==
    \/ \E ok \in BOOLEAN : TxtText(r, k, ok, BatchText)
    \/ \E o \in BatchFetchOutcomes : TokFetch(r, k, o)
    \/ \E o \in BatchJsonOutcomes : TokJson(r, k, o)
    \/ ExtractTextStep(r, k)

NextBatch ==
    \/ SelectBatch
    \/ \E r \in 1..Len(runs) : \E k \in 1..Len(runs[r].files) : BatchStep(r, k)
    \/ AppStep
    \/ Tick

SpecBatch == InitBatch /\ [][NextBatch]_vars

-----------------------------------------------------------------------------
(* SpecReuse: up to MaxRuns selections one after the other (the upload     *)
(* area is disabled while a run is in flight), each of up to MaxReuseFiles *)
(* files, in the environment of SpecBatch                                  *)

SelectAgain ==
    \E files \in SeqsUpTo(BatchFiles, MaxReuseFiles) :
        /\ Len(runs) < MaxRuns
        /\ ~isProcessing
        /\ handleFilesSelected(files)
        /\ UNCHANGED widget

NextReuse ==
    \/ SelectAgain
    \/ \E r \in 1..Len(runs) : \E k \in 1..Len(runs[r].files) : BatchStep(r, k)
    \/ AppStep

SpecReuse == InitBatch /\ [][NextReuse]_vars

-----------------------------------------------------------------------------
(* SpecConfig: the configuration operations of the service on their own:   *)
(* updateConfig with any subset of the fields, getConfig and its callers,  *)
(* testConnection with every outcome of its request                        *)

\* the arguments of updateConfig: each field absent or supplied; the key may be
\* supplied as undefined
ConfigPartials ==
    {Partial(m, u, a) : m \in {None, Some("gpt2")},
                        u \in {None, Some(<<>>), Some(<<" ">>), Some(<<"u">>)},
                        a \in {None, Some(None)}}

ConfigNext ==
    \/ \E p \in ConfigPartials : UpdateConfig(p)
    \/ GetConfig
    \/ \E f \in {"modelName", "azureFunctionUrl"} : MutateReturned(f)
    \/ TestConnectionCall
    \/ \E j \in 1..Len(client.tests) : \E o \in FetchOutcomes : TestConnectionFetch(j, o)

SpecConfig == Init /\ [][ConfigNext]_vars

-----------------------------------------------------------------------------
(* SpecPanel: the configuration panel in front of the service *)

\* what the user types into the form
FormEdits ==
    {<<"modelName", "gpt2">>, <<"azureFunctionUrl", <<>> >>,
     <<"azureFunctionUrl", <<"u">> >>, <<"apiKey", Some("key")>>}

NextPanel ==
    \/ PanelToggle
    \/ \E e \in FormEdits : PanelEdit(e[1], e[2])
    \/ HandleReset
    \/ HandleSave
    \/ HandleTest
    \/ \E j \in 1..Len(client.tests) : \E o \in FetchOutcomes : TestConnectionFetch(j, o)
    \/ HandleTestResume
    \/ PanelCancel

SpecPanel == Init /\ [][NextPanel]_vars

-----------------------------------------------------------------------------
(* SpecExtract: the format adapters on their own, for one file: the reads   *)
(* and the parsers answer (they resolve or reject), nothing else is assumed *)

AdapterStep ==
    \E r \in 1..Len(runs) : \E k \in 1..Len(runs[r].files) :
        \/ PdfStep(r, k)
        \/ DocxStep(r, k)
        \/ TxtStep(r, k)

NextExtract ==
    \/ SelectOne
    \/ AdapterStep

SpecExtract == Init /\ [][NextExtract]_vars /\ WF_vars(AdapterStep)

-----------------------------------------------------------------------------
(* SpecText: the TextPreprocessor on its own: preprocessText on a text made *)
(* of up to MaxChunks pieces with every combination of the options, then    *)
(* getPreprocessingStats on the text and the result (or another text)       *)

Chunks == {<<"A", "A", "A">>, <<" ">>, <<"\n">>, <<":">>, <<"x">>}

RECURSIVE Flatten(_)
Flatten(pieces) == IF pieces = <<>> THEN <<>> ELSE Head(pieces) \o Flatten(Tail(pieces))

TextInputs == {Flatten(pieces) : pieces \in SeqsUpTo(Chunks, MaxChunks)}

OptionSets ==
    [preserveOriginalStructure : BOOLEAN, addFieldMarkers : BOOLEAN,
     addHeaderMarkers : BOOLEAN, normalizeWhitespace : BOOLEAN]

NextText ==
    \/ /\ preprocessor.op = "none"
       /\ \E rawText \in TextInputs : \E options \in OptionSets :
              PreprocessTextCall(rawText, options)
    \/ \E processedText \in {preprocessor.returned, <<"x">>} :
           GetPreprocessingStatsCall(processedText)

SpecText == InitBatch /\ [][NextText]_vars

-----------------------------------------------------------------------------
(* SpecUpload: the FileUpload component in front of the App: selections,   *)
(* removals and clear-all, up to MaxSelections onFilesSelected calls; the   *)
(* tokenizer is not configured                                              *)

File(name, type, size) == [name |-> name, type |-> type, size |-> size]

\* what the user drops or picks: a picture, a text file and a legacy Word
\* file; the same legacy Word file (of the largest size allowed) three times;
\* another one twice; a third one three times; files of a wrong size
Selections ==
    LET a == File("a.txt", TXT, 1)
        b == File("b.doc", MSWORD, MAX_FILE_SIZE)
        c == File("c.doc", MSWORD, 1)
        e == File("e.doc", MSWORD, 1)
    IN {<<File("d.png", "image/png", 1), a, c>>,
        <<b, b, b>>,
        <<c, c>>,
        <<e, e, e>>,
        <<File("big.txt", TXT, MAX_FILE_SIZE + 1), File("empty.txt", TXT, 0)>>}

UploadStep(r, k) ==
    \/ \E ok \in BOOLEAN : TxtText(r, k, ok, BatchText)
    \/ ExtractTextStep(r, k)

NextUpload ==
    \/ \E files \in Selections : HandleFiles(files)
    \/ \E j \in 1..Len(widget.uploadedFiles) : RemoveFile(widget.uploadedFiles[j].id)
    \/ ClearAll
    \/ \E r \in 1..Len(runs) : \E k \in 1..Len(runs[r].files) : UploadStep(r, k)
    \/ AppStep

\* VITE_AZURE_TOKENIZER_URL is a blank: the tokenizer is not configured
InitUpload == InitWith({<<Some(<<" ">>), None>>})

SpecUpload == InitUpload /\ [][NextUpload]_vars

-----------------------------------------------------------------------------
(* Properties *)

\* the invocations there are
Invocations == UNION {{<<r, k>> : k \in 1..Len(runs[r].files)} : r \in 1..Len(runs)}
InvOf(rk) == runs[rk[1]].inv[rk[2]]

\* the statuses invocation rk passed to onProgress (extractText, its adapter and
\* its tokenizer callback), in order
IsOwn(rk, e) == e.run = rk[1] /\ e.k = rk[2] /\ e.by # "processDocuments"
Own(rk) == SelectSeq(log, LAMBDA e : IsOwn(rk, e))

Terminal(e) == e.st.status \in {Completed, Error}
SupportedTypes == {PDF, DOCX, TXT}

UnavailableMsg == "Tokenization unavailable, finalizing extraction..."

\* the tokenizer call of the invocation has failed
TokenizerFailed(inv) == inv.tokCalls > 0 /\ inv.pc \in {"tok_settled", "resolved", "rejected"} /\ ~inv.tokOk

\* C1: when extraction and normalization succeeded and the tokenizer call
\* failed, extractText cannot reject and emits no error status; once it has
\* settled it has returned a document without tokenizedData, its last status is
\* 'completed' with progress 100, and 'Tokenization unavailable' was emitted
\* before it.
C1_TokenizerFailureIsNotFatal ==
    \A rk \in Invocations :
        LET inv == InvOf(rk)
            L == Own(rk)
        IN (inv.adapterOk /\ inv.normCalls > 0 /\ TokenizerFailed(inv)) =>
              /\ inv.pc # "rejected"
              /\ \A i \in 1..Len(L) : L[i].st.status # Error
              /\ inv.pc = "resolved" =>
                    /\ inv.doc # NoDoc
                    /\ inv.doc.tokenizedData = None
                    /\ Last(L).st.status = Completed
                    /\ Last(L).st.progress = Pct(100)
                    /\ \E i \in 1..(Len(L) - 1) : L[i].st.message = UnavailableMsg

\* C1 witness: a document returned after the service sent a malformed response
C1_Witness ==
    \E rk \in Invocations :
        /\ InvOf(rk).pc = "resolved"
        /\ InvOf(rk).tokErr = Err("Error", <<InvalidResponseMsg>>)
        /\ InvOf(rk).doc.tokenizedData = None

\* the extraction stage of the invocation has failed: an unsupported type, or
\* the adapter threw
ExtractionFailed(inv) ==
    inv.pc # "idle" /\ (inv.file.type \notin SupportedTypes \/ inv.adapterErr # NoErr)

\* C2: when the extraction stage fails, the invocation never returns a document,
\* never emits 'completed' and calls neither the normalizer nor the tokenizer;
\* it rejects with the extraction error, and its last status is 'error' with
\* that error's message in the error field.
C2_ExtractionFailureIsFatal ==
    \A rk \in Invocations :
        LET inv == InvOf(rk)
            L == Own(rk)
        IN ExtractionFailed(inv) =>
              /\ inv.pc \in {"adapter_settled", "rejected"}
              /\ inv.doc = NoDoc
              /\ inv.normCalls = 0 /\ inv.tokCalls = 0
              /\ \A i \in 1..Len(L) : L[i].st.status # Completed
              /\ inv.pc = "rejected" =>
                    /\ inv.error # NoErr
                    /\ inv.file.type \in SupportedTypes => inv.error = inv.adapterErr
                    /\ Last(L).st.status = Error
                    /\ Last(L).st.error = Some(inv.error.message)

\* C2 witness: an invocation rejected because its adapter threw
C2_Witness ==
    \E rk \in Invocations :
        /\ InvOf(rk).pc = "rejected"
        /\ InvOf(rk).adapterErr = Err("Error", <<PdfCorrupt>>)
        /\ InvOf(rk).pageNum = 1

\* the statuses of file k of run r, whoever emitted them
Emitted(r, k) == SelectSeq(log, LAMBDA e : e.run = r /\ e.k = k)

\* C3: at the end of a batch every file has been handled, and every file whose
\* own extraction succeeded has resolved, has emitted 'completed' and has its
\* document in newDocuments, whatever happened to the other files.
C3_BatchIsolation ==
    \A r \in 1..Len(runs) :
        runs[r].pc = "done" =>
            \A k \in 1..Len(runs[r].files) :
                LET inv == runs[r].inv[k]
                    E == Emitted(r, k)
                IN /\ k \in runs[r].reused \/ Settled(inv)
                   /\ inv.adapterOk =>
                         /\ inv.pc = "resolved"
                         /\ \E i \in 1..Len(E) : E[i].st.status = Completed
                         /\ \E j \in 1..Len(runs[r].newDocuments) :
                                runs[r].newDocuments[j] = inv.doc

\* C3 witness: a finished batch of three whose second file failed and whose
\* first and third were completed
C3_Witness ==
    \E r \in 1..Len(runs) :
        /\ runs[r].pc = "done"
        /\ Len(runs[r].files) = 3
        /\ runs[r].inv[1].pc = "resolved"
        /\ runs[r].inv[2].pc = "rejected"
        /\ runs[r].inv[3].pc = "resolved"
        /\ Len(runs[r].newDocuments) = 2

\* C4: in the log of one run the file positions never decrease, a terminal
\* status of file k precedes every status of a later file, and an invocation
\* starts only when every earlier file is settled (or was reused).
C4_NoInterleaving ==
    /\ \A i, j \in 1..Len(log) :
           (i < j /\ log[i].run = log[j].run) =>
               /\ log[i].k <= log[j].k
               /\ log[i].k < log[j].k =>
                     \E t \in i..(j - 1) : log[t].k = log[i].k /\ Terminal(log[t])
    /\ \A r \in 1..Len(runs) : \A k \in 1..Len(runs[r].files) :
           runs[r].inv[k].pc # "idle" =>
               \A h \in 1..(k - 1) : h \in runs[r].reused \/ Settled(runs[r].inv[h])

\* C4 witness: the second file of a batch is in flight after the first emitted
\* its statuses
C4_Witness ==
    \E r \in 1..Len(runs) :
        /\ Len(runs[r].files) >= 2
        /\ runs[r].inv[2].pc = "adapter_settled"
        /\ Len(Emitted(r, 1)) > 1
        /\ Len(Emitted(r, 2)) > 1

SameFile(f, g) == f.name = g.name /\ f.type = g.type
InSnapshot(run, f) ==
    \E j \in 1..Len(run.snapshot) :
        run.snapshot[j].fileName = f.name /\ run.snapshot[j].fileType = f.type
FirstInSnapshot(run, f) ==
    run.snapshot[Min({j \in 1..Len(run.snapshot) :
                         run.snapshot[j].fileName = f.name
                         /\ run.snapshot[j].fileType = f.type})]

RECURSIVE ExpectedDocuments(_, _)
\* what newDocuments must hold after the first n files of a finished run
ExpectedDocuments(run, n) ==
    IF n = 0 THEN <<>>
    ELSE LET before == ExpectedDocuments(run, n - 1)
         IN IF InSnapshot(run, run.files[n])
            THEN Append(before, FirstInSnapshot(run, run.files[n]))
            ELSE IF run.inv[n].pc = "resolved" THEN Append(before, run.inv[n].doc)
            ELSE before

\* C5 as stated: of two files of a batch with the same name and type,
\* extractText is called for at most one.
C5_Original ==
    \A r \in 1..Len(runs) : \A k1, k2 \in 1..Len(runs[r].files) :
        (k1 < k2 /\ SameFile(runs[r].files[k1], runs[r].files[k2])) =>
            ~(runs[r].inv[k1].pc # "idle" /\ runs[r].inv[k2].pc # "idle")

\* C5 amended: a file is served without an extractText call exactly when the
\* extracted-document list held, when the batch started, a document with its
\* name and type; every other file the loop reaches is extracted, duplicates
\* within the batch included; a finished run's newDocuments holds the reused
\* documents verbatim among the new ones, in file order.
C5_ReuseFromEarlierRun ==
    \A r \in 1..Len(runs) :
        LET run == runs[r]
        IN /\ \A k \in 1..Len(run.files) :
                  /\ InSnapshot(run, run.files[k]) => run.inv[k].pc = "idle"
                  /\ (~InSnapshot(run, run.files[k]) /\ k <= run.i) => run.inv[k].pc # "idle"
                  /\ k \in run.reused <=> (InSnapshot(run, run.files[k]) /\ k < run.i)
           /\ run.pc = "done" => run.newDocuments = ExpectedDocuments(run, Len(run.files))

\* C5 witness: a finished second batch that reused a tokenized document of the
\* first batch and extracted another file
C5_Witness ==
    \E r \in 1..Len(runs) :
        /\ r > 1
        /\ runs[r].pc = "done"
        /\ 1 \in runs[r].reused
        /\ Len(runs[r].files) = 2
        /\ runs[r].inv[2].pc = "resolved"
        /\ IsSome(runs[r].newDocuments[1].tokenizedData)

\* C6: an invocation emits no terminal status before it settles; once settled
\* it has emitted exactly one, as its last status: 'completed' exactly when it
\* returned a document, 'error' exactly when it rejected.
C6_OneTerminalStatusLast ==
    \A rk \in Invocations :
        LET inv == InvOf(rk)
            L == Own(rk)
            T == {i \in 1..Len(L) : Terminal(L[i])}
        IN /\ ~Settled(inv) => T = {}
           /\ Settled(inv) =>
                 /\ T = {Len(L)}
                 /\ Last(L).st.status = Completed <=> inv.pc = "resolved"
                 /\ Last(L).st.status = Error <=> inv.pc = "rejected"

\* C6 witness: a settled invocation that returned a tokenized document
C6_Witness ==
    \E rk \in Invocations :
        /\ InvOf(rk).pc = "resolved"
        /\ IsSome(InvOf(rk).doc.tokenizedData)
        /\ Len(Own(rk)) > 1

Adapters == {"extractFromPDF", "extractFromDocx", "extractFromText"}

\* the stage of the per-document state machine a status belongs to:
\* 1 Start/Extracting (extractText), 2 Extracting (adapter), 3 Normalizing,
\* 4 Tokenizing, 5 Finalizing, 6 Completed
StageOf(e) ==
    CASE e.by \in Adapters -> 2
      [] e.by = "tokenizeText" -> 4
      [] e.st.status = Completed -> 6
      [] e.st.progress <= Pct(90) -> 1
      [] e.st.progress < Pct(96) -> 3
      [] e.st.progress = Pct(96) -> 4
      [] OTHER -> 5

\* C7: the statuses of an invocation up to an 'error' go through the stages in
\* order; a status emitted by a format adapter has progress in [0,90], one emitted
\* by the tokenizer callback has progress in [96,99], and progress 100 comes only
\* with 'completed'.
C7_ProgressBands ==
    \A rk \in Invocations :
        LET L == Own(rk)
        IN /\ \A i \in 1..Len(L) :
                  /\ L[i].by \in Adapters =>
                        (0 <= L[i].st.progress /\ L[i].st.progress <= Pct(90))
                  /\ L[i].by = "tokenizeText" =>
                        (Pct(96) <= L[i].st.progress /\ L[i].st.progress <= Pct(99))
                  /\ L[i].st.progress = Pct(100) => L[i].st.status = Completed
           /\ \A i, j \in 1..Len(L) :
                  (i < j /\ L[j].st.status # Error) => StageOf(L[i]) <= StageOf(L[j])
           /\ L # <<>> => (L[1].by = "extractText" /\ L[1].st.progress = Pct(5))

\* C7 witness: a PDF with pages that went through every stage with a tokenizer
\* call that succeeded
C7_Witness ==
    \E rk \in Invocations :
        /\ InvOf(rk).pc = "resolved"
        /\ InvOf(rk).file.type = PDF
        /\ InvOf(rk).numPages >= 2
        /\ InvOf(rk).tokOk

\* C8: every status in the log has a status value of the type and a progress
\* from 0 to 100.
C8_StatusAndProgressRange ==
    \A i \in 1..Len(log) :
        /\ log[i].st.status \in StatusValues
        /\ 0 <= log[i].st.progress
        /\ log[i].st.progress <= Pct(100)

\* C8 witness: a PDF that failed on its last page after the 90 % status
C8_Witness ==
    \E rk \in Invocations :
        /\ InvOf(rk).pc = "rejected"
        /\ InvOf(rk).numPages >= 2
        /\ InvOf(rk).pageNum = InvOf(rk).numPages
        /\ \E i \in 1..Len(Own(rk)) : Own(rk)[i].st.progress = Pct(90)
        /\ \E i \in 1..Len(log) : log[i].by = "processDocuments"

LegacyDocErr ==
    Err("Error", <<"Legacy .doc files are not supported. Please convert to .docx format.">>)

\* C9: an invocation on a file of the legacy Word type or of an unknown type is
\* rejected by the time extractText first yields, with the unsupported-format
\* error (naming an unknown type), without any read of the file and without
\* any adapter call.
C9_UnsupportedTypeFailsFast ==
    \A rk \in Invocations :
        LET inv == InvOf(rk)
        IN (inv.pc # "idle" /\ inv.file.type \notin SupportedTypes) =>
              /\ inv.pc = "rejected"
              /\ inv.reads = 0
              /\ inv.adapterCalls = <<>>
              /\ inv.error = IF inv.file.type = MSWORD THEN LegacyDocErr
                             ELSE Err("Error", <<"Unsupported file type: ", inv.file.type>>)

\* C9 witness: a rejected legacy Word file
C9_Witness ==
    \E rk \in Invocations :
        /\ InvOf(rk).file.type = MSWORD
        /\ InvOf(rk).pc = "rejected"
        /\ Len(Own(rk)) = 2

Blank(url) == \A i \in 1..Len(url) : url[i] \in Whitespace

\* C10: a tokenizeText call made while the service URL is empty or blank fails
\* with the not-configured error, has issued no request, armed no timer and
\* emitted no progress.
C10_NotConfiguredFailsImmediately ==
    \A rk \in Invocations :
        LET inv == InvOf(rk)
            L == Own(rk)
        IN (inv.tokCalls > 0 /\ Blank(inv.urlAtCall)) =>
              /\ inv.pc \in {"tok_settled", "resolved"}
              /\ ~inv.tokOk
              /\ inv.tokErr = Err("Error", <<NotConfiguredMsg>>)
              /\ inv.requests = <<>>
              /\ inv.timer = "none"
              /\ \A i \in 1..Len(L) : L[i].by # "tokenizeText"

\* C10 witness: a call made with a whitespace-only URL
C10_Witness ==
    \E rk \in Invocations :
        /\ InvOf(rk).tokCalls > 0
        /\ InvOf(rk).urlAtCall = <<" ">>
        /\ InvOf(rk).pc = "tok_settled"

\* tokenizeText has settled for the invocation
TokSettled(inv) == inv.tokCalls > 0 /\ inv.pc \in {"tok_settled", "resolved", "rejected"}

\* `Tokenization failed: ${response.status} ${response.statusText}. ${errorText}`
ServiceError(inv) ==
    Err("Error", <<"Tokenization failed: ", inv.response.status, " ",
                   inv.response.statusText, ". ", Get(inv.errorText)>>)

\* C11: once tokenizeText has settled after a non-2xx response whose body was
\* read, the error it raised is the service error made of the status and the
\* body, whatever the body says.
C11_NonOkRaisesServiceError ==
    \A rk \in Invocations :
        LET inv == InvOf(rk)
        IN (TokSettled(inv) /\ IsSome(inv.errorText)) =>
              (~inv.tokOk /\ inv.tokErr = ServiceError(inv))

\* the parsed response of the invocation has a tokens field that is an array
HasTokensArray(result) == ~result.isNull /\ IsArray(result.tokens)

\* C12: once tokenizeText has settled after a 2xx response that parsed as JSON,
\* it has failed with the invalid-response error when the JSON has no tokens
\* array, and has returned a result when it has one, the empty array included.
C12_NoTokensArrayIsInvalidResponse ==
    \A rk \in Invocations :
        LET inv == InvOf(rk)
        IN (TokSettled(inv) /\ IsSome(inv.result)) =>
              IF HasTokensArray(Get(inv.result))
              THEN inv.tokOk
              ELSE ~inv.tokOk /\ inv.tokErr = Err("Error", <<InvalidResponseMsg>>)

\* C13: when the 30 s timer fired while fetch was pending, tokenizeText fails
\* with the timeout error as soon as fetch settles and holds no result; the
\* timeout error is raised for no other failure, and it is not the error raised
\* for a network failure.
C13_TimeoutAbortsWithTimeoutError ==
    \A rk \in Invocations :
        LET inv == InvOf(rk)
        IN /\ inv.abortedAt = "tok_fetch" =>
                 /\ inv.pc # "tok_fetch" =>
                        (~inv.tokOk /\ inv.tokErr = Err("Error", <<TimedOutMsg>>))
                 /\ inv.tokData = NoData
                 /\ inv.pc = "resolved" => inv.doc.tokenizedData = None
           /\ inv.tokErr = Err("Error", <<TimedOutMsg>>) => inv.abortedAt = "tok_fetch"
           /\ Err("Error", <<TimedOutMsg>>) # Err("Error", <<CannotConnectMsg>>)

\* C13 witness: an invocation whose request was aborted by the timer and whose
\* tokenizer call has failed with the timeout error
C13_Witness ==
    \E rk \in Invocations :
        /\ InvOf(rk).abortedAt = "tok_fetch"
        /\ InvOf(rk).pc = "resolved"
        /\ InvOf(rk).tokErr = Err("Error", <<TimedOutMsg>>)

\* an invocation is suspended inside tokenizeText
InTokenizeText == \E rk \in Invocations : InvOf(rk).pc \in {"tok_fetch", "tok_text", "tok_json"}

\* C14: an invocation suspended inside tokenizeText eventually leaves it
\* (tokenizeText settles), whatever the service does.
C14_TokenizeTextEventuallySettles == InTokenizeText ~> ~InTokenizeText

\* C16: the result of a tokenizeText call that succeeded, and the tokenizedData
\* of the document built from it, have tokenCount equal to the length of
\* tokens, and tokens are the tokens of the response.
C16_TokenCountIsLength ==
    \A rk \in Invocations :
        LET inv == InvOf(rk)
        IN (TokSettled(inv) /\ inv.tokOk) =>
              /\ inv.tokData.tokenCount = Len(inv.tokData.tokens)
              /\ inv.tokData.tokens = Get(inv.result).tokens.a
              /\ inv.pc = "resolved" =>
                    Get(inv.doc.tokenizedData).tokenCount
                        = Len(Get(inv.doc.tokenizedData).tokens)

\* C16 witness: a document built from a response with tokens and no ids
C16_Witness ==
    \E rk \in Invocations :
        /\ InvOf(rk).pc = "resolved"
        /\ InvOf(rk).tokOk
        /\ InvOf(rk).tokData.tokenCount = MaxTokens
        /\ Get(InvOf(rk).result).token_ids = JsUndefined

\* C17: the result of a tokenizeText call that succeeded has tokenIds empty or
\* of the length of tokens.
C17_TokenIdsAligned ==
    \A rk \in Invocations :
        LET inv == InvOf(rk)
        IN (TokSettled(inv) /\ inv.tokOk) =>
              \/ inv.tokData.tokenIds.a = <<>>
              \/ Len(inv.tokData.tokenIds.a) = Len(inv.tokData.tokens)

\* C18: the model name a tokenizeText call falls back on for its result is the
\* model name it sent in its request, and the URL it checked is the URL it
\* sent the request to.
C18_OneConfigurationPerCall ==
    \A rk \in Invocations :
        LET inv == InvOf(rk)
        IN inv.requests # <<>> =>
              /\ inv.requests[1].url = inv.urlAtCall
              /\ IsSome(inv.fallbackModel) =>
                    Get(inv.fallbackModel) = inv.requests[1].model_name

\* C20: an invocation calls at most one adapter, once, the normalizer and
\* tokenizeText at most once, and a tokenizeText call issues at most one
\* request.
C20_NoRetries ==
    \A rk \in Invocations :
        LET inv == InvOf(rk)
        IN /\ Len(inv.adapterCalls) <= 1
           /\ inv.normCalls <= 1
           /\ inv.tokCalls <= 1
           /\ Len(inv.requests) <= inv.tokCalls

\* C20 witness: a document returned after the one request failed on the network
C20_Witness ==
    \E rk \in Invocations :
        /\ InvOf(rk).pc = "resolved"
        /\ InvOf(rk).tokErr = Err("Error", <<CannotConnectMsg>>)
        /\ InvOf(rk).errorText = None
        /\ Len(InvOf(rk).requests) = 1
        /\ Len(InvOf(rk).adapterCalls) = 1

\* C15: a testConnection call never rejects; it issues at most one request, and
\* none when the URL is empty, in which case it has resolved to false; once
\* resolved its value is true exactly when its request got a 2xx response.
C15_TestConnectionNeverThrows ==
    \A j \in 1..Len(client.tests) :
        LET test == client.tests[j]
        IN /\ test.pc \in {"fetch", "resolved"}
           /\ Len(test.requests) <= 1
           /\ test.urlAtCall = <<>> =>
                 (test.pc = "resolved" /\ test.value = FALSE /\ test.requests = <<>>)
           /\ test.pc = "resolved" =>
                 /\ test.value \in BOOLEAN
                 /\ test.value <=> (test.outcome.kind = "response" /\ test.outcome.ok)

\* C15 witness: a call that resolved to false after its request failed on the
\* network
C15_Witness ==
    \E j \in 1..Len(client.tests) :
        /\ client.tests[j].pc = "resolved"
        /\ client.tests[j].outcome.kind = "reject"
        /\ client.tests[j].value = FALSE
        /\ Len(client.tests[j].requests) = 1

\* the value getConfig must return for a field: the one last supplied to
\* updateConfig, or the startup value
LastWritten(field) ==
    IF IsSome(client.written[field]) THEN Get(client.written[field])
    ELSE client.startup[field]

\* C19: every field of the configuration has the value last supplied for it to
\* updateConfig, or its startup value when none was; an object just returned by
\* getConfig holds these values; assignments to a returned object leave the
\* configuration as it is.
C19_LastWriteWinsPerField ==
    /\ \A f \in {"modelName", "azureFunctionUrl", "apiKey"} : config[f] = LastWritten(f)
    /\ IsSome(client.got) =>
          (Get(client.got).fresh => Get(client.got).obj = config)

\* C19 witness: after an update that supplied the URL only, and an assignment to
\* the model name of a returned object, the configuration has the supplied URL
\* and the startup model name
C19_Witness ==
    /\ IsSome(client.got)
    /\ Get(client.got).obj.modelName = "assigned"
    /\ client.written.azureFunctionUrl = Some(<<" ">>)
    /\ client.written.modelName = None
    /\ config.modelName = client.startup.modelName
    /\ config.azureFunctionUrl = <<" ">>

-----------------------------------------------------------------------------
(* Document identity *)

\* the invocations that returned a document
Produced == {rk \in Invocations : InvOf(rk).pc = "resolved"}

\* C21: any two distinct extractText invocations, also on files of the same
\* name, produce documents with different ids.
C21_DocumentIdsUnique ==
    \A rk1 \in Produced : \A rk2 \in Produced :
        rk1 # rk2 => InvOf(rk1).doc.id # InvOf(rk2).doc.id

-----------------------------------------------------------------------------
(* Word count *)

\* the positions at which a word of s starts: a character that is not
\* whitespace, at the start of s or after whitespace
WordStarts(s) ==
    {i \in 1..Len(s) : s[i] \notin Whitespace /\ (i = 1 \/ s[i - 1] \in Whitespace)}

\* C22: the wordCount of every produced document is the number of non-empty
\* whitespace-separated words of the raw extracted text, equal to the
\* originalWordCount of its statistics, whatever the normalized text is and
\* whether or not tokenization succeeded.
C22_WordCountOfRawText ==
    \A rk \in Produced :
        LET doc == InvOf(rk).doc
        IN /\ doc.wordCount = Cardinality(WordStarts(doc.extractedText))
           /\ doc.wordCount = doc.metadata.preprocessingStats.originalWordCount

\* a document of two words whose normalized text has three, without tokens
C22_Witness ==
    \E rk \in Produced :
        LET doc == InvOf(rk).doc
        IN /\ doc.wordCount = 2
           /\ doc.metadata.preprocessingStats.processedWordCount = 3
           /\ doc.tokenizedData = None

-----------------------------------------------------------------------------
(* The preprocessor: statistics, totality, shape of the result *)

\* C23: getPreprocessingStats returns compressionRatio = len(processed) /
\* len(original) when the original is not empty and exactly 0 when it is;
\* structureImprovement is 0 when the original has no line; neither is ever
\* NaN or Infinity.
C23_RatiosAreDefined ==
    preprocessor.op = "getPreprocessingStats" =>
        LET stats == preprocessor.stats
            original == preprocessor.rawText
            processed == preprocessor.processedText
        IN /\ stats.compressionRatio.kind = "finite"
           /\ stats.structureImprovement.kind = "finite"
           /\ Len(original) > 0 =>
                  stats.compressionRatio.num * Len(original)
                      = Len(processed) * stats.compressionRatio.den
           /\ Len(original) = 0 => stats.compressionRatio.num = 0

\* the characters of a text
Chars == Upper \cup Whitespace \cup {":", "x"}
IsString(v) == \A i \in 1..Len(v) : v[i] \in Chars

\* C24: preprocessText is total: for every text and every combination of the
\* four options the call returns a string; it never raises.
C24_PreprocessTextIsTotal ==
    preprocessor.op # "none" => IsString(preprocessor.returned)

\* a call on a text of blanks only, with every option switched off
C24_Witness ==
    /\ preprocessor.op = "preprocessText"
    /\ preprocessor.rawText = <<" ", "\n", " ">>
    /\ preprocessor.options \in [preserveOriginalStructure : {TRUE},
                                 addFieldMarkers : {FALSE}, addHeaderMarkers : {FALSE},
                                 normalizeWhitespace : {FALSE}]
    /\ preprocessor.returned = <<>>

\* C25: the result of preprocessText has no leading or trailing whitespace and
\* no run of three or more newlines, for every text and every combination of
\* the options.
C25_TrimmedAndCollapsed ==
    preprocessor.op # "none" =>
        LET out == preprocessor.returned
        IN /\ out # <<>> => out[1] \notin Whitespace /\ out[Len(out)] \notin Whitespace
           /\ \A i \in 1..(Len(out) - 2) :
                  ~(out[i] = "\n" /\ out[i + 1] = "\n" /\ out[i + 2] = "\n")

\* the field marker and the header marker put three newlines inside the text,
\* between a word and a label, and two of them are left
C25_Witness ==
    /\ preprocessor.op = "preprocessText"
    /\ preprocessor.rawText = <<":", "A", "A", "A", " ", "A", "A", "A", ":">>
    /\ preprocessor.options = DefaultOptions
    /\ preprocessor.returned = <<":", "\n", "\n", "A", "A", "A", " ", "A", "A", "A", ":">>

-----------------------------------------------------------------------------
(* The extraction stage *)

\* the awaits of the three adapters
AdapterPcs ==
    {"pdf_arrayBuffer", "pdf_getDocument", "pdf_getPage", "pdf_getTextContent",
     "docx_import", "docx_arrayBuffer", "docx_extractRawText", "txt_text"}

InAdapter == \E rk \in Invocations : InvOf(rk).pc \in AdapterPcs

\* the adapter of invocation rk returned a string or threw one of the three
\* errors of the adapters' catch blocks
AdapterOutcome(rk) ==
    LET inv == InvOf(rk)
    IN inv.pc = "adapter_settled" =>
           IF inv.adapterOk THEN IsString(inv.extractedText)
           ELSE inv.adapterErr \in {Err("Error", <<PdfCorrupt>>),
                                    Err("Error", <<DocxCorrupt>>),
                                    Err("Error", <<TextUnreadable>>)}

\* the adapter of invocation rk returned a string or threw a corrupt-document
\* error, which only the PDF and the Word adapter have
AdapterOutcomeCorruptOnly(rk) ==
    LET inv == InvOf(rk)
    IN inv.pc = "adapter_settled" =>
           IF inv.adapterOk THEN IsString(inv.extractedText)
           ELSE inv.adapterErr \in {Err("Error", <<PdfCorrupt>>),
                                    Err("Error", <<DocxCorrupt>>)}

-----------------------------------------------------------------------------
(* The upload widget in front of the pipeline *)

\* the errors extractText throws for a type it has no adapter for
UnsupportedFormat(inv) ==
    /\ inv.pc = "rejected"
    /\ inv.error \in {LegacyDocErr, Err("Error", <<"Unsupported file type: ", inv.file.type>>)}

\* C27: every file the upload widget hands to extractText has passed
\* validateFile: it is at most 50MB and not empty, its type is one extractText
\* has an adapter for, and extractText does not reject it as unsupported.
C27_PipelineSeesValidatedFiles ==
    \A rk \in Invocations :
        LET inv == InvOf(rk)
        IN inv.pc # "idle" =>
              /\ validateFile(inv.file).isValid
              /\ 0 < inv.file.size /\ inv.file.size <= MAX_FILE_SIZE
              /\ inv.file.type \in SupportedTypes
              /\ ~UnsupportedFormat(inv)

\* the selection last handled by handleFiles was over the limit
OverCapSelection ==
    /\ widget.last.op = "handleFiles"
    /\ Len(widget.last.uploadedFiles) + Len(widget.last.validFiles) > maxFiles

\* C28: the widget's list, the list the App holds and every list handed to
\* processDocuments have at most maxFiles entries; after a selection that
\* would exceed the limit the widget's list is the one before the selection
\* and no onFilesSelected call has been made.
C28_AtMostMaxFiles ==
    /\ Len(widget.uploadedFiles) <= maxFiles
    /\ Len(uploadedFiles) <= maxFiles
    /\ \A r \in 1..Len(runs) : Len(runs[r].files) <= maxFiles
    /\ OverCapSelection =>
           /\ widget.uploadedFiles = widget.last.uploadedFiles
           /\ Len(runs) = widget.last.calls

\* a full list, then a selection with one more valid file
C28_Witness ==
    /\ OverCapSelection
    /\ Len(widget.uploadedFiles) = maxFiles
    /\ Len(uploadedFiles) = maxFiles
    /\ Len(widget.last.validFiles) = 1

-----------------------------------------------------------------------------
(* The page loop of extractFromPDF *)

\* the statuses extractFromPDF emitted for its pages: all but "Loading PDF"
PageStatuses(rk) ==
    LET own == SelectSeq(Own(rk), LAMBDA e : e.by = "extractFromPDF")
    IN IF own = <<>> THEN <<>> ELSE Tail(own)

\* v = round(k / n * 80), as the nearest integer with halves rounded up
IsRoundedShare(v, k, n) == 2 * n * v - n <= 160 * k /\ 160 * k < 2 * n * v + n

\* C29: extractFromPDF asks for the pages 1, 2, ... in this order, each once,
\* and all N of them when it returns; before page k it emits the progress
\* 10 + round(k/N*80); these values lie in [10, 90], never decrease, and the
\* one of the last page is 90.
C29_PagesInOrder ==
    \A rk \in Invocations :
        LET inv == InvOf(rk)
            st == PageStatuses(rk)
            n == inv.numPages
        IN inv.file.type = PDF =>
              /\ Len(inv.pages) <= n
              /\ \A k \in 1..Len(inv.pages) : inv.pages[k] = k
              /\ (inv.pc = "adapter_settled" /\ inv.adapterOk) => Len(inv.pages) = n
              /\ Len(st) = Len(inv.pages)
              /\ \A k \in 1..Len(st) :
                    /\ \E v \in 0..80 : /\ st[k].st.progress = Pct(10 + v)
                                        /\ IsRoundedShare(v, k, n)
                    /\ Pct(10) <= st[k].st.progress /\ st[k].st.progress <= Pct(90)
                    /\ k > 1 => st[k - 1].st.progress <= st[k].st.progress
              /\ (Len(st) = n /\ n > 0) => st[n].st.progress = Pct(90)

\* a PDF of MaxPages pages, all read, the adapter has returned
C29_Witness ==
    \E rk \in Invocations :
        /\ InvOf(rk).file.type = PDF
        /\ InvOf(rk).pc = "adapter_settled"
        /\ InvOf(rk).adapterOk
        /\ InvOf(rk).pages = [k \in 1..MaxPages |-> k]
        /\ Len(PageStatuses(rk)) = MaxPages

-----------------------------------------------------------------------------
(* The progress reports of tokenizeText *)

\* connecting, sending, processing, finalizing, done
Milestones == <<10, 30, 70, 90, 100>>

\* the statuses extractText emitted on behalf of tokenizeText's onProgress
TokStatuses(rk) == SelectSeq(Own(rk), LAMBDA e : e.by = "tokenizeText")

\* the values tokenizeText passed so far are the first ones of Milestones
IsMilestonePrefix(rk) ==
    LET st == TokStatuses(rk)
    IN /\ Len(st) <= Len(Milestones)
       /\ \A i \in 1..Len(st) : st[i].st.progress = Pct(96) + 3 * Milestones[i]

\* C30: the progress values a tokenizeText call passes to onProgress are, in
\* order, the first ones of 10, 30, 70, 90, 100; 100 has been passed exactly
\* when the call has returned a result; a call that has failed passes nothing
\* more.
C30_MilestonesInOrder ==
    /\ [](\A rk \in Invocations :
              /\ IsMilestonePrefix(rk)
              /\ Len(TokStatuses(rk)) = Len(Milestones)
                     <=> (TokSettled(InvOf(rk)) /\ InvOf(rk).tokOk))
    /\ [][\A rk \in Invocations :
              (TokSettled(InvOf(rk)) /\ ~InvOf(rk).tokOk)
                  => TokStatuses(rk)' = TokStatuses(rk)]_vars

\* a call that returned after its five reports
C30_Witness ==
    \E rk \in Invocations :
        /\ InvOf(rk).pc = "tok_settled"
        /\ InvOf(rk).tokOk
        /\ Len(TokStatuses(rk)) = 5
        /\ TokStatuses(rk)[5].st.progress = Pct(99)

-----------------------------------------------------------------------------
(* The order of the statuses of one invocation *)

\* C31: in the statuses of one extractText invocation the progress never
\* decreases from one status to the next, except into an 'error' status,
\* whose progress is 0; nothing follows the 'completed' status.
C31_ProgressNonDecreasing ==
    \A rk \in Invocations :
        LET own == Own(rk)
        IN \A i \in 1..Len(own) :
              /\ own[i].st.status = Error => own[i].st.progress = 0
              /\ i > 1 =>
                    /\ own[i - 1].st.status # Completed
                    /\ own[i].st.status # Error
                           => own[i - 1].st.progress <= own[i].st.progress

\* a Word document completed without tokens after the tokenizer had reported
\* its progress up to 'finalizing'
C31_Witness ==
    \E rk \in Invocations :
        LET own == Own(rk)
        IN /\ InvOf(rk).file.type = DOCX
           /\ InvOf(rk).pc = "resolved"
           /\ ~InvOf(rk).tokOk
           /\ Len(own) = 11
           /\ own[9].st.progress = Pct(96) + 3 * 90
           /\ own[10].st.progress = Pct(99)
           /\ own[11].st.status = Completed

\* the emitters that are format adapters
AdapterNames == {"extractFromPDF", "extractFromDocx", "extractFromText"}

\* C32: in one invocation normalization runs once and only after the adapter
\* has returned its text; tokenizeText is called once, only after
\* normalization, with the normalized text, which is also the text of every
\* request it sends; while the adapter is at work neither has started, and no
\* adapter status follows a tokenizer status.
C32_StagesInOrder ==
    \A rk \in Invocations :
        LET inv == InvOf(rk)
            own == Own(rk)
        IN /\ inv.pc \in AdapterPcs \cup {"adapter_settled"} =>
                  inv.normCalls = 0 /\ inv.tokCalls = 0
           /\ inv.normCalls > 0 =>
                  inv.normCalls = 1 /\ inv.adapterOk /\ Len(inv.adapterCalls) = 1
           /\ inv.tokCalls > 0 =>
                  /\ inv.tokCalls = 1 /\ inv.normCalls = 1
                  /\ inv.tokText = Some(inv.preprocessedText)
                  /\ \A q \in 1..Len(inv.requests) :
                         inv.requests[q].text = inv.preprocessedText
           /\ inv.tokCalls = 0 => inv.tokText = None /\ inv.requests = <<>>
           /\ \A i, j \in 1..Len(own) :
                  (i < j /\ own[i].by = "tokenizeText") => own[j].by \notin AdapterNames

\* a request went out with a normalized text that differs from the extracted
\* one
C32_Witness ==
    \E rk \in Invocations :
        /\ InvOf(rk).tokCalls = 1
        /\ Len(InvOf(rk).requests) = 1
        /\ InvOf(rk).requests[1].text = InvOf(rk).preprocessedText
        /\ InvOf(rk).preprocessedText # InvOf(rk).extractedText
        /\ InvOf(rk).extractedText # <<>>

-----------------------------------------------------------------------------
(* Batches *)

\* statuses of two processDocuments runs alternate in the log
Interleaved ==
    \E i, j, k \in 1..Len(log) :
        i < j /\ j < k /\ log[i].run = log[k].run /\ log[j].run # log[i].run

\* C33: at most one processDocuments run is in flight at any time, and the
\* statuses of two runs never interleave.
C33_OneBatchInFlight ==
    /\ Cardinality(InFlight) <= 1
    /\ ~Interleaved

\* every processDocuments run that was started has returned
AllRunsSettled == runs # <<>> /\ InFlight = {}

\* docs are documents of files of the selection, one per file at most, in the
\* order of the selection
InSelectionOrder(docs, files) ==
    \E pos \in [1..Len(docs) -> 1..Len(files)] :
        /\ \A d \in 1..Len(docs) :
               /\ docs[d].fileName = files[pos[d]].name
               /\ docs[d].fileType = files[pos[d]].type
        /\ \A d, e \in 1..Len(docs) : d < e => pos[d] < pos[e]

\* the file's last status in the App is 'completed'
ShownCompleted(file) ==
    \E i \in 1..Len(processingStatuses) :
        /\ processingStatuses[i].id = file.name
        /\ processingStatuses[i].status = Completed

\* C34: once every started processDocuments run has returned, isProcessing is
\* false and the App's documents are those of the files of the most recent
\* selection, one per file at most and in its order (so none of a removed
\* file), with a document for every file shown as completed.
C34_DocumentsMatchSelection ==
    AllRunsSettled =>
        /\ ~isProcessing
        /\ InSelectionOrder(extractedDocuments, uploadedFiles)
        /\ \A j \in 1..Len(uploadedFiles) :
               ShownCompleted(uploadedFiles[j]) =>
                   \E d \in 1..Len(extractedDocuments) :
                       extractedDocuments[d].fileName = uploadedFiles[j].name

-----------------------------------------------------------------------------
(* The App's status list *)

\* the positions in the log of the statuses with this id
EmissionsOf(id) == {i \in 1..Len(log) : log[i].st.id = id}

\* C35: the App's status list has one entry for each id that a status was
\* emitted with and no other; the entry is the last status emitted with the
\* id; the entries stand in the order in which their ids were first emitted.
C35_StatusListIsUpsert ==
    LET list == processingStatuses
        First(id) == CHOOSE i \in EmissionsOf(id) : \A j \in EmissionsOf(id) : i <= j
        Latest(id) == CHOOSE i \in EmissionsOf(id) : \A j \in EmissionsOf(id) : j <= i
    IN /\ \A i, j \in 1..Len(list) : list[i].id = list[j].id => i = j
       /\ \A i \in 1..Len(log) : \E j \in 1..Len(list) : list[j].id = log[i].st.id
       /\ \A j \in 1..Len(list) :
              /\ EmissionsOf(list[j].id) # {}
              /\ list[j] = log[Latest(list[j].id)].st
       /\ \A i, j \in 1..Len(list) :
              i < j => First(list[i].id) < First(list[j].id)

\* two ids in the list, the first one updated after the second was added,
\* the last update being the 'error' status of processDocuments
C35_Witness ==
    /\ Len(processingStatuses) = 2
    /\ \E i \in EmissionsOf(processingStatuses[1].id) :
           /\ \A j \in EmissionsOf(processingStatuses[2].id) : j < i
           /\ log[i].by = "processDocuments"
    /\ EmissionsOf(processingStatuses[2].id) # {}

-----------------------------------------------------------------------------
(* The timeout timer of tokenizeText *)

\* C36: once a tokenizeText call has settled, the timer it armed has been
\* cleared or has fired: none is still pending.
C36_NoTimerPendingAfterSettle ==
    \A rk \in Invocations :
        TokSettled(InvOf(rk)) => InvOf(rk).timer \in {"none", "cleared", "fired"}

-----------------------------------------------------------------------------
(* C37 *)

\* the test started by handleTest has finished and Cancel closed the panel,
\* with no handleSave since that test
TestedThenCancelled ==
    /\ client.panel.last = "cancel"
    /\ ~client.panel.isOpen
    /\ ~client.panel.isTesting
    /\ client.panel.testResult # ""
    /\ IsSome(client.panel.testedFrom)

\* C37: once the connection test of the panel has finished and the panel was
\* closed with Cancel, without Save, the service's active configuration
\* equals what it was before the test.
C37_TestLeavesConfigUnchanged ==
    TestedThenCancelled => config = Get(client.panel.testedFrom)

-----------------------------------------------------------------------------
(* C38 *)

\* C38: the upload widget's file list never holds two entries with the same
\* name and the same size.
C38_NoDuplicateEntries ==
    \A i, j \in 1..Len(widget.uploadedFiles) :
        (/\ widget.uploadedFiles[i].name = widget.uploadedFiles[j].name
         /\ widget.uploadedFiles[i].size = widget.uploadedFiles[j].size) => i = j

====
